---------------------------- MODULE Spec2Model ----------------------------
(***************************************************************************)
(* Model of @epilot/switching-deadlines: the holiday catalog, the          *)
(* CalendarProvider (per-year holiday cache, working-day arithmetic) and   *)
(* the DeadlineCalculator (rule lookup, earliest start date, validation).  *)
(*                                                                         *)
(* Conventions                                                             *)
(*  - A JavaScript Date at UTC midnight is the integer number of days      *)
(*    since 1970-01-01 (its epoch milliseconds divided by 86400000).  The  *)
(*    process time zone is UTC and times of day are not modelled.          *)
(*  - A date string is the tuple of its parts: "YYYY-MM-DD" with a year of *)
(*    four digits is <<YYYY, MM, DD>>, "YYYY-MM" is <<YYYY, MM>>, "YYYY"   *)
(*    is <<YYYY>> and the empty string is <<>>.  Date strings with a time  *)
(*    of day and strings in other notations are not among the arguments.   *)
(*  - A date argument (Date | string) is a record: StringArg(parts) for a  *)
(*    date string, DateArg(t) for a Date object and InvalidDate for the    *)
(*    Date whose time value is NaN.                                        *)
(*  - A method call yields [ok |-> TRUE, value |-> v, self |-> s] or, when *)
(*    it throws, [ok |-> FALSE, error |-> message, self |-> s]; s is the   *)
(*    provider after the call.  An optional field that is undefined in     *)
(*    JavaScript is a field the record does not have.                      *)
(*  - Umlauts in holiday names are transliterated to ASCII, and a          *)
(*    Bundesland is written by its enum key.                               *)
(***************************************************************************)
EXTENDS Integers, Sequences, FiniteSets, TLC

-----------------------------------------------------------------------------
(* Built-in date arithmetic used by the source (Date, Date.UTC, date-fns)  *)

\* body(v) for v the value of x, with x evaluated once (const v = x; ...)
Bind(x, body(_)) == CHOOSE r \in { body(v) : v \in {x} } : TRUE

\* NaN, the time value of the invalid Date and what its getters return, as a
\* number that no day number, year, month or day equals.  No arithmetic is
\* done on it: an operator that is handed NaN yields what JavaScript yields.
NaN == 999999999

\* The day number of the day d of month m of year y in the proleptic Gregorian
\* calendar (MakeDay of the language standard); a day of month beyond the
\* month's length rolls over into the following month.
DayNumber(y, m, d) ==
    Bind(IF m <= 2 THEN y - 1 ELSE y, LAMBDA yy :
    Bind(yy \div 400, LAMBDA era :
    Bind(yy - era * 400, LAMBDA yoe :
    Bind((153 * (IF m > 2 THEN m - 3 ELSE m + 9) + 2) \div 5 + d - 1, LAMBDA doy :
        era * 146097 + (yoe * 365 + yoe \div 4 - yoe \div 100 + doy) - 719468))))

\* TimeClip of the language standard: a Date holds a time within 100,000,000
\* days of the epoch (-271821-04-20 to +275760-09-13); a time beyond is NaN
TimeClip(day) ==
    IF day \in (0 - 100000000)..100000000 THEN day ELSE NaN

\* Date.UTC(y, m-1, d) in days: a year 0..99 is read as 1900 + year, and the
\* value is NaN when an argument is NaN or the day is beyond the range of a
\* Date (every day of a year beyond 300000 is)
DaysFromCivil(y, m, d) ==
    IF y = NaN \/ m = NaN \/ d = NaN THEN NaN
    ELSE IF y \notin (0 - 300000)..300000 THEN NaN
    ELSE TimeClip(DayNumber(IF y \in 0..99 THEN 1900 + y ELSE y, m, d))

\* The UTC calendar date <<y, m, d>> of a day number (getFullYear, getMonth + 1,
\* getDate); each of them is NaN for the invalid Date
CivilFromDays(z) ==
    IF z = NaN THEN <<NaN, NaN, NaN>> ELSE
    Bind((z + 719468) \div 146097, LAMBDA era :
    Bind((z + 719468) - era * 146097, LAMBDA doe :
    Bind((doe - doe \div 1460 + doe \div 36524 - doe \div 146096) \div 365,
         LAMBDA yoe :
    Bind(doe - (365 * yoe + yoe \div 4 - yoe \div 100), LAMBDA doy :
    Bind((5 * doy + 2) \div 153, LAMBDA mp :
    Bind(IF mp < 10 THEN mp + 3 ELSE mp - 9, LAMBDA m :
        <<yoe + era * 400 + (IF m <= 2 THEN 1 ELSE 0),
          m,
          doy - (153 * mp + 2) \div 5 + 1>>))))))

\* Date.prototype.getFullYear
getFullYear(date) == CivilFromDays(date)[1]

\* Date.prototype.getDay: 0 = Sunday .. 6 = Saturday (1970-01-01 was a
\* Thursday), NaN for the invalid Date
getDay(date) == IF date = NaN THEN NaN ELSE (date + 4) % 7

\* date-fns addDays: date.setDate(date.getDate() + amount); the invalid Date
\* stays invalid, and a day beyond the range of a Date gives the invalid Date
addDays(date, amount) ==
    IF date = NaN \/ amount = NaN THEN NaN ELSE TimeClip(date + amount)

\* date-fns subDays: addDays(date, -amount)
subDays(date, amount) ==
    addDays(date, IF amount = NaN THEN NaN ELSE 0 - amount)

\* date-fns differenceInDays: NaN when one of the dates is invalid
differenceInDays(later, earlier) ==
    IF later = NaN \/ earlier = NaN THEN NaN ELSE later - earlier

\* date-fns isSunday, isWeekend: false for the invalid Date
isSunday(date) == getDay(date) = 0
isWeekend(date) == getDay(date) = 0 \/ getDay(date) = 6

\* date-fns previousWednesday: the Wednesday strictly before the date; for the
\* invalid Date the distance is NaN and the result the invalid Date
previousWednesday(date) ==
    LET delta == IF getDay(date) = NaN THEN NaN ELSE getDay(date) - 3
    IN  subDays(date, IF delta = NaN THEN NaN
                      ELSE IF delta <= 0 THEN delta + 7 ELSE delta)

\* Arguments of type Date | string; the Date of the time value NaN is the
\* invalid Date
StringArg(parts) == [kind |-> "string", parts |-> parts]
DateArg(t) == [kind |-> "Date", valid |-> t # NaN, time |-> t]
InvalidDate == DateArg(NaN)

\* The year at the head of a date string is a number that stands for its
\* spelling, so that two strings are equal exactly when their tuples are:
\*   "dddd", four digits ("2025", "0999")             the year, 0..9999
\*   "+dddddd", a plus sign and six digits            10000000 + year
\*   "-dddddd", a minus sign and six digits           -10000000 - digits
\*   digits that are not four, without a sign         20000000 + year
\*       ("999", "50", "10000")
\*   a minus sign and digits that are not six         -20000000 - digits
\*       ("-5", "-1000000")
\* The month and the day of a date string are written with two digits.

\* `${year}`: the year in decimal digits without padding, with a minus sign
\* when it is negative
templateYear(year) ==
    IF year \in 1000..9999 THEN year
    ELSE IF year >= 0 THEN 20000000 + year
    ELSE IF year \in (0 - 999999)..(0 - 100000) THEN (0 - 10000000) + year
    ELSE (0 - 20000000) + year

\* the year of toISOString: four digits for 0..9999, otherwise a sign and six
\* digits
isoYear(year) ==
    IF year \in 0..9999 THEN year
    ELSE IF year > 0 THEN 10000000 + year
    ELSE (0 - 10000000) + year

\* parseInt(date.split('-')[0]) === year: a string that starts with "-" has
\* an empty first part, whose parseInt is NaN
parsedYearIs(date, year) ==
    /\ date # <<>>
    /\ \/ date[1] \in 0..9999 /\ date[1] = year
       \/ date[1] \in 10000000..10999999 /\ date[1] - 10000000 = year
       \/ date[1] >= 20000000 /\ date[1] - 20000000 = year

\* The Date of a year, a month 1..12 and a day 1..31; every day of a year
\* beyond 300000 is more than 100,000,000 days from the epoch
MakeDate(year, month, day) ==
    IF year \notin (0 - 300000)..300000
    THEN InvalidDate
    ELSE DateArg(TimeClip(DayNumber(year, month, day)))

\* The fallback date parser of the JavaScript engine, which takes over where
\* a string stops being an ISO 8601 date, for a string of up to three numbers
\* a-b-c (a missing number is 1): month-day-year when a is a day of month
\* 1..31, year-month-day otherwise.  A year 0..49 is 2000 + year, a year 50..99
\* is 1900 + year; the month has to be 1..12 and the day 1..31.
LegacyDate(a, b, c) ==
    LET ymd   == a \notin 1..31
        year  == IF ymd THEN a ELSE c
        month == IF ymd THEN b ELSE a
        day   == IF ymd THEN c ELSE b
        fullYear == IF year \in 0..49 THEN 2000 + year
                    ELSE IF year \in 50..99 THEN 1900 + year
                    ELSE year
    IN  IF month \in 1..12 /\ day \in 1..31
        THEN MakeDate(fullYear, month, day)
        ELSE InvalidDate

\* new Date(string) in the JavaScript engine for a string of one to three
\* numbers joined by "-".
\*  - A string whose year has four digits, or a sign and six digits, is an
\*    ISO 8601 date when its month is 01..12 and its day 01..31: "YYYY-MM-DD"
\*    (a day beyond the month's length rolls over: "2025-02-30" is March 2),
\*    "YYYY-MM" the first day of the month, "YYYY" January 1, with the year as
\*    written, also a year 0000..0099.  With a month or day outside these
\*    ranges its numbers go to the fallback parser: "0004-13-22" is April 13,
\*    2022.
\*  - "-000000" is no year: the numbers after it go to the fallback parser
\*    ("-000000-01-01" is January 1, 2001) and "-000000" by itself is invalid.
\*  - A year spelled otherwise goes to the fallback parser with the month and
\*    the day, its minus sign dropped: "999-12-24" is December 24, 999,
\*    "50-01-01" is January 1, 1950 and "-5-01-01" is May 1, 2001.
\*  - The empty string gives the invalid Date.
NewDateFromString(parts) ==
    IF Len(parts) \notin 1..3
    THEN InvalidDate
    ELSE LET y == parts[1]
             b == IF Len(parts) >= 2 THEN parts[2] ELSE 1
             c == IF Len(parts) = 3 THEN parts[3] ELSE 1
             isoYearOf ==
                 IF y \in 0..9999 THEN y
                 ELSE IF y >= 10000000 THEN y - 10000000
                 ELSE y + 10000000
         IN  IF y = 0 - 10000000
             THEN IF Len(parts) = 1 THEN InvalidDate ELSE LegacyDate(b, c, 1)
             ELSE IF \/ y \in 0..9999
                     \/ y \in 10000000..10999999
                     \/ y \in (0 - 10999999)..(0 - 10000001)
             THEN IF b \in 1..12 /\ c \in 1..31
                  THEN MakeDate(isoYearOf, b, c)
                  ELSE LegacyDate(isoYearOf, b, c)
             ELSE IF y >= 20000000
             THEN LegacyDate(y - 20000000, b, c)
             ELSE IF y <= 0 - 20000000
             THEN LegacyDate((0 - y) - 20000000, b, c)
             ELSE InvalidDate

-----------------------------------------------------------------------------
(* src/utils.ts                                                            *)

Returned(v, self) == [ok |-> TRUE, value |-> v, self |-> self]
Thrown(e, self) == [ok |-> FALSE, error |-> e, self |-> self]

InvalidDateError == <<"Invalid date value">>

\* the RangeError that Date.prototype.toISOString throws for the invalid Date
InvalidTimeValueError == <<"Invalid time value">>

\* the value of a call that returns nothing
Undefined == [undefined |-> TRUE]

\* normalizeDate: [ok |-> TRUE, value |-> day number] or the thrown error
normalizeDate(date) ==
    Bind(IF date.kind = "string"
         THEN NewDateFromString(date.parts)
         ELSE IF date.valid
              THEN Bind(CivilFromDays(date.time), LAMBDA civil :
                        DateArg(DaysFromCivil(civil[1], civil[2], civil[3])))
              ELSE InvalidDate,
         LAMBDA result :
            IF ~result.valid
            THEN [ok |-> FALSE, error |-> InvalidDateError]
            ELSE [ok |-> TRUE, value |-> result.time])

\* date.toISOString().split('T')[0]: [ok |-> TRUE, value |-> the string] or,
\* for the invalid Date, the thrown error
toISODateString(date) ==
    IF date = NaN
    THEN [ok |-> FALSE, error |-> InvalidTimeValueError]
    ELSE Bind(CivilFromDays(date), LAMBDA civil :
            [ok |-> TRUE, value |-> <<isoYear(civil[1]), civil[2], civil[3]>>])

-----------------------------------------------------------------------------
(* src/holidays                                                            *)

WEEKEND == "weekend"
PUBLIC_HOLIDAY == "public_holiday"
OPERATIONAL_HOLIDAY == "operational_holiday"
SPECIAL_HOLIDAY == "sonderfeiertag"

Holiday(date, name, type, bundeslaender) ==
    [date |-> date, name |-> name, type |-> type, bundeslaender |-> bundeslaender]

GPKE == [description |-> "Genereller Feiertag nach GPKE/GeLi Gas"]

\* a fixed-holiday list of twelve entries: the list without Weltkindertag
getFixedHolidays_twelve(year) ==
    << Holiday(<<templateYear(year), 1, 1>>, "Neujahr", PUBLIC_HOLIDAY, <<>>),
       Holiday(<<templateYear(year), 1, 6>>, "Heilige Drei Koenige", PUBLIC_HOLIDAY,
               <<"BW", "BY", "ST">>),
       Holiday(<<templateYear(year), 3, 8>>, "Internationaler Frauentag", PUBLIC_HOLIDAY,
               <<"BE", "MV">>),
       Holiday(<<templateYear(year), 5, 1>>, "Tag der Arbeit", PUBLIC_HOLIDAY, <<>>),
       Holiday(<<templateYear(year), 8, 15>>, "Mariae Himmelfahrt", PUBLIC_HOLIDAY,
               <<"BY", "SL">>),
       Holiday(<<templateYear(year), 10, 3>>, "Tag der Deutschen Einheit", PUBLIC_HOLIDAY, <<>>),
       Holiday(<<templateYear(year), 10, 31>>, "Reformationstag", PUBLIC_HOLIDAY,
               <<"BB", "HB", "HH", "MV", "NI", "SN", "ST", "SH", "TH">>),
       Holiday(<<templateYear(year), 11, 1>>, "Allerheiligen", PUBLIC_HOLIDAY,
               <<"BW", "BY", "NW", "RP", "SL">>),
       Holiday(<<templateYear(year), 12, 24>>, "Heiligabend", OPERATIONAL_HOLIDAY, <<>>) @@ GPKE,
       Holiday(<<templateYear(year), 12, 25>>, "1. Weihnachtstag", PUBLIC_HOLIDAY, <<>>),
       Holiday(<<templateYear(year), 12, 26>>, "2. Weihnachtstag", PUBLIC_HOLIDAY, <<>>),
       Holiday(<<templateYear(year), 12, 31>>, "Silvester", OPERATIONAL_HOLIDAY, <<>>) @@ GPKE >>

getFixedHolidays(year) ==
    << Holiday(<<templateYear(year), 1, 1>>, "Neujahr", PUBLIC_HOLIDAY, <<>>),
       Holiday(<<templateYear(year), 1, 6>>, "Heilige Drei Koenige", PUBLIC_HOLIDAY,
               <<"BW", "BY", "ST">>),
       Holiday(<<templateYear(year), 3, 8>>, "Internationaler Frauentag", PUBLIC_HOLIDAY,
               <<"BE", "MV">>),
       Holiday(<<templateYear(year), 5, 1>>, "Tag der Arbeit", PUBLIC_HOLIDAY, <<>>),
       Holiday(<<templateYear(year), 8, 15>>, "Mariae Himmelfahrt", PUBLIC_HOLIDAY,
               <<"BY", "SL">>),
       Holiday(<<templateYear(year), 9, 20>>, "Weltkindertag", PUBLIC_HOLIDAY, <<"TH">>),
       Holiday(<<templateYear(year), 10, 3>>, "Tag der Deutschen Einheit", PUBLIC_HOLIDAY, <<>>),
       Holiday(<<templateYear(year), 10, 31>>, "Reformationstag", PUBLIC_HOLIDAY,
               <<"BB", "HB", "HH", "MV", "NI", "SN", "ST", "SH", "TH">>),
       Holiday(<<templateYear(year), 11, 1>>, "Allerheiligen", PUBLIC_HOLIDAY,
               <<"BW", "BY", "NW", "RP", "SL">>),
       Holiday(<<templateYear(year), 12, 24>>, "Heiligabend", OPERATIONAL_HOLIDAY, <<>>) @@ GPKE,
       Holiday(<<templateYear(year), 12, 25>>, "1. Weihnachtstag", PUBLIC_HOLIDAY, <<>>),
       Holiday(<<templateYear(year), 12, 26>>, "2. Weihnachtstag", PUBLIC_HOLIDAY, <<>>),
       Holiday(<<templateYear(year), 12, 31>>, "Silvester", OPERATIONAL_HOLIDAY, <<>>) @@ GPKE >>

\* easter(year) of the date-easter package: Gregorian Easter Sunday as
\* [year, month, day] (the anonymous Gregorian computus)
easter(year) ==
    LET a == year % 19
        b == year \div 100
        c == year % 100
        d == b \div 4
        e == b % 4
        f == (b + 8) \div 25
        g == (b - f + 1) \div 3
        h == (19 * a + b - d - g + 15) % 30
        i == c \div 4
        k == c % 4
        l == (32 + 2 * e + 2 * i - h - k) % 7
        m == (a + 11 * h + 22 * l) \div 451
        n == h + l - 7 * m + 114
    IN  [year |-> year, month |-> n \div 31, day |-> (n % 31) + 1]

calculateDayOfRepentance(year) ==
    Bind(DaysFromCivil(year, 11, 23), LAMBDA nov23 :
    Bind(previousWednesday(nov23), LAMBDA dayOfRepentence :
    Bind(CivilFromDays(dayOfRepentence), LAMBDA civil :
        DaysFromCivil(civil[1], civil[2], civil[3]))))

\* getMovingHolidays: [ok |-> TRUE, value |-> the list] or, when one of the
\* dates is the invalid Date, the error toISODateString throws for it
getMovingHolidays(year) ==
    Bind(easter(year), LAMBDA easterDate :
    Bind(DaysFromCivil(easterDate.year, easterDate.month, easterDate.day),
         LAMBDA easterSunday :
    Bind(<< toISODateString(addDays(easterSunday, -2)),
            toISODateString(easterSunday),
            toISODateString(addDays(easterSunday, 1)),
            toISODateString(addDays(easterSunday, 39)),
            toISODateString(addDays(easterSunday, 49)),
            toISODateString(addDays(easterSunday, 50)),
            toISODateString(addDays(easterSunday, 60)),
            toISODateString(calculateDayOfRepentance(year)) >>,
         LAMBDA date :
        IF \E i \in 1..8 : ~date[i].ok
        THEN date[CHOOSE i \in 1..8 : ~date[i].ok /\ \A j \in 1..(i - 1) : date[j].ok]
        ELSE [ok |-> TRUE,
              value |->
        << Holiday(date[1].value, "Karfreitag", PUBLIC_HOLIDAY, <<>>),
           Holiday(date[2].value, "Ostersonntag", PUBLIC_HOLIDAY, <<>>),
           Holiday(date[3].value, "Ostermontag", PUBLIC_HOLIDAY, <<>>),
           Holiday(date[4].value, "Christi Himmelfahrt", PUBLIC_HOLIDAY, <<>>),
           Holiday(date[5].value, "Pfingstsonntag", PUBLIC_HOLIDAY, <<>>),
           Holiday(date[6].value, "Pfingstmontag", PUBLIC_HOLIDAY, <<>>),
           Holiday(date[7].value, "Fronleichnam", PUBLIC_HOLIDAY,
                   <<"BW", "BY", "HE", "NW", "RP", "SL">>),
           Holiday(date[8].value, "Buss- und Bettag", PUBLIC_HOLIDAY,
                   <<"SN">>) >>])))

getAllSpecialHolidays ==
    << Holiday(<<2020, 5, 8>>, "Tag der Befreiung", PUBLIC_HOLIDAY, <<"BE">>)
         @@ [description |-> "75. Jahrestag der Befreiung vom Nationalsozialismus (einmalig)",
             isOneTime |-> TRUE],
       Holiday(<<2025, 5, 8>>, "Tag der Befreiung", PUBLIC_HOLIDAY, <<"BE">>)
         @@ [description |-> "80. Jahrestag der Befreiung vom Nationalsozialismus (einmalig)",
             isOneTime |-> TRUE],
       Holiday(<<2025, 6, 6>>, "Einmaliger Sonderfeiertag", SPECIAL_HOLIDAY, <<>>)
         @@ [description |-> "Koordinierter Start des 24h-Lieferantenwechsels (GPKE)",
             isOneTime |-> TRUE] >>

\* holidays/utils.ts: the year is the part of the date string before the first "-"
filterHolidaysForYear(holidays, year) ==
    LET sameYear(holiday) == parsedYearIs(holiday.date, year)
    IN  SelectSeq(holidays, sameYear)

getSpecialHolidays(year) == filterHolidaysForYear(getAllSpecialHolidays, year)

-----------------------------------------------------------------------------
(* CalendarProvider (src/unnamed/part_002, lines 41-497).  A provider is   *)
(* the record [holidayCache, customHolidays, useSpecialHolidays]:          *)
(* holidayCache is a function from the cached years to their holiday maps, *)
(* a holiday map a function from ISO dates to holidays.                    *)

\* (ch) => ({date, name, type: ch.type ?? SPECIAL_HOLIDAY,
\*           bundeslaender: ch.bundeslaender ?? [], description})
customHolidayFromConfig(ch) ==
    Holiday(ch.date, ch.name,
            IF "type" \in DOMAIN ch THEN ch.type ELSE SPECIAL_HOLIDAY,
            IF "bundeslaender" \in DOMAIN ch THEN ch.bundeslaender ELSE <<>>)
    @@ (IF "description" \in DOMAIN ch
        THEN [description |-> ch.description] ELSE <<>>)

mapCustomHolidays(configs) ==
    [i \in 1..Len(configs) |-> customHolidayFromConfig(configs[i])]

\* constructor(options)
newCalendarProvider(holidays, useSpecial) ==
    [holidayCache |-> <<>>,
     customHolidays |-> mapCustomHolidays(holidays),
     useSpecialHolidays |-> useSpecial,
     computeHolidaysCalls |-> <<>>]

\* a holiday map in which the first of several holidays on one date stays
holidayMapOf_firstWins(holidays) ==
    LET firstIndex(date) ==
            CHOOSE i \in 1..Len(holidays) :
                /\ holidays[i].date = date
                /\ \A j \in 1..(i - 1) : holidays[j].date # date
    IN  [date \in {holidays[i].date : i \in 1..Len(holidays)} |->
            holidays[firstIndex(date)]]

\* holidays.reduce((map, holiday) => map.set(holiday.date, holiday), new Map()):
\* of several holidays on one date the last one in the list stays
holidayMapOf(holidays) ==
    LET lastIndex(date) ==
            CHOOSE i \in 1..Len(holidays) :
                /\ holidays[i].date = date
                /\ \A j \in (i + 1)..Len(holidays) : holidays[j].date # date
    IN  [date \in {holidays[i].date : i \in 1..Len(holidays)} |->
            holidays[lastIndex(date)]]

\* computeHolidays that includes the special holidays whatever the switch says
computeHolidays_alwaysSpecial(self, year) ==
    Bind(getMovingHolidays(year), LAMBDA moving :
    IF ~moving.ok THEN moving ELSE
    Bind(getSpecialHolidays(year), LAMBDA specialHolidays :
    Bind(getFixedHolidays(year) \o moving.value
         \o specialHolidays
         \o filterHolidaysForYear(self.customHolidays, year),
         LAMBDA holidays : [ok |-> TRUE, value |-> holidayMapOf(holidays)])))

\* computeHolidays in which the custom holidays of a year, when there are
\* any, take the place of the year's other holidays
computeHolidays_customInstead(self, year) ==
    LET notSpecial(holiday) == holiday.type # SPECIAL_HOLIDAY
    IN  Bind(getMovingHolidays(year), LAMBDA moving :
        IF ~moving.ok THEN moving ELSE
        Bind(getSpecialHolidays(year), LAMBDA specialHolidays :
        Bind(filterHolidaysForYear(self.customHolidays, year), LAMBDA custom :
        Bind(IF custom # <<>> THEN custom
             ELSE getFixedHolidays(year) \o moving.value
                  \o (IF self.useSpecialHolidays
                      THEN specialHolidays
                      ELSE SelectSeq(specialHolidays, notSpecial)),
             LAMBDA holidays : [ok |-> TRUE, value |-> holidayMapOf(holidays)]))))

\* computeHolidays: [ok |-> TRUE, value |-> the year's map] or the error
\* getMovingHolidays throws
computeHolidays(self, year) ==
    LET notSpecial(holiday) == holiday.type # SPECIAL_HOLIDAY
    IN  Bind(getMovingHolidays(year), LAMBDA moving :
        IF ~moving.ok THEN moving ELSE
        Bind(getSpecialHolidays(year), LAMBDA specialHolidays :
        Bind(getFixedHolidays(year) \o moving.value
             \o (IF self.useSpecialHolidays
                 THEN specialHolidays
                 ELSE SelectSeq(specialHolidays, notSpecial))
             \o filterHolidaysForYear(self.customHolidays, year),
             LAMBDA holidays : [ok |-> TRUE, value |-> holidayMapOf(holidays)])))

\* self after computeHolidays has returned one more map for the year
CountComputeHolidays(self, year) ==
    [self EXCEPT !.computeHolidaysCalls =
        (year :> (IF year \in DOMAIN @ THEN @[year] + 1 ELSE 1)) @@ @]

\* getHolidaysForYear: [ok |-> TRUE, map |-> the year's map, self |-> the
\* provider afterwards] or, when computeHolidays throws, the thrown error with
\* the cache as it was
getHolidaysForYear(self, year) ==
    IF year \in DOMAIN self.holidayCache
    THEN [ok |-> TRUE, map |-> self.holidayCache[year], self |-> self]
    ELSE Bind(computeHolidays(self, year), LAMBDA holidayMap :
            IF ~holidayMap.ok
            THEN Thrown(holidayMap.error, self)
            ELSE [ok |-> TRUE,
                  map |-> holidayMap.value,
                  self |-> [CountComputeHolidays(self, year)
                               EXCEPT !.holidayCache =
                                          @ @@ (year :> holidayMap.value)]])

\* isHoliday's "holiday ?? false" when the map has no entry
NoHoliday == [isHoliday |-> FALSE]

\* isHoliday reading the region list: only nationwide entries count
isHoliday_nationwideOnly(self, date) ==
    Bind(normalizeDate(date), LAMBDA n :
        IF ~n.ok THEN Thrown(n.error, self)
        ELSE Bind(getFullYear(n.value), LAMBDA year :
             Bind(getHolidaysForYear(self, year), LAMBDA holidays :
             IF ~holidays.ok THEN holidays ELSE
             Bind(toISODateString(n.value).value, LAMBDA key :
                Returned(IF key \in DOMAIN holidays.map
                            /\ holidays.map[key].bundeslaender = <<>>
                         THEN holidays.map[key] ELSE NoHoliday,
                         holidays.self)))))

isHoliday(self, date) ==
    Bind(normalizeDate(date), LAMBDA n :
        IF ~n.ok THEN Thrown(n.error, self)
        ELSE Bind(getFullYear(n.value), LAMBDA year :
             Bind(getHolidaysForYear(self, year), LAMBDA holidays :
             IF ~holidays.ok THEN holidays ELSE
             Bind(toISODateString(n.value).value, LAMBDA key :
                Returned(IF key \in DOMAIN holidays.map
                         THEN holidays.map[key] ELSE NoHoliday,
                         holidays.self)))))

isWorkingDay(self, date) ==
    Bind(normalizeDate(date), LAMBDA n :
        IF ~n.ok THEN Thrown(n.error, self)
        ELSE IF isWeekend(n.value) THEN Returned(FALSE, self)
        ELSE Bind(isHoliday(self, DateArg(n.value)), LAMBDA h :
                IF ~h.ok THEN h
                ELSE IF h.value # NoHoliday THEN Returned(FALSE, h.self)
                ELSE Returned(TRUE, h.self)))

getDayInfo(self, date) ==
    Bind(normalizeDate(date), LAMBDA n :
        IF ~n.ok THEN Thrown(n.error, self)
        ELSE Bind(isHoliday(self, DateArg(n.value)), LAMBDA foundHoliday :
             IF ~foundHoliday.ok THEN foundHoliday ELSE
             Bind(toISODateString(n.value).value, LAMBDA iso :
                IF foundHoliday.value # NoHoliday
                THEN Returned([date |-> iso, isWorkingDay |-> FALSE,
                               holiday |-> foundHoliday.value], foundHoliday.self)
                ELSE IF isWeekend(n.value)
                THEN Returned([date |-> iso, isWorkingDay |-> FALSE,
                               holiday |-> [date |-> iso,
                                            name |-> IF isSunday(n.value)
                                                     THEN "Sonntag" ELSE "Samstag",
                                            type |-> WEEKEND]],
                              foundHoliday.self)
                ELSE Returned([date |-> iso, isWorkingDay |-> TRUE],
                              foundHoliday.self))))

\* one pass through the body of the while loop of addWorkingDays; the loop
\* state is [ok, self, date, workingDaysAdded], or what isWorkingDay throws
addWorkingDaysStep(st) ==
    Bind(addDays(st.date, 1), LAMBDA date :
    Bind(isWorkingDay(st.self, DateArg(date)), LAMBDA w :
        IF ~w.ok THEN w
        ELSE [ok |-> TRUE,
              self |-> w.self,
              date |-> date,
              workingDaysAdded |-> IF w.value THEN st.workingDaysAdded + 1
                                   ELSE st.workingDaysAdded]))

\* while (workingDaysAdded < workingDays) { ... }
RECURSIVE addWorkingDaysLoop(_, _)
addWorkingDaysLoop(st, workingDays) ==
    IF st.ok /\ st.workingDaysAdded < workingDays
    THEN Bind(addWorkingDaysStep(st), LAMBDA next :
            addWorkingDaysLoop(next, workingDays))
    ELSE st

addWorkingDays(self, startDate, workingDays) ==
    Bind(normalizeDate(startDate), LAMBDA n :
        IF ~n.ok THEN Thrown(n.error, self)
        ELSE Bind(addWorkingDaysLoop([ok |-> TRUE, self |-> self, date |-> n.value,
                                      workingDaysAdded |-> 0], workingDays),
                  LAMBDA loop :
                    IF ~loop.ok THEN loop
                    ELSE Returned(addDays(loop.date, 1), loop.self)))

\* one pass through the body of the while loop of getWorkingDaysInRange; the
\* loop state is [ok, self, current, days], or what getDayInfo throws
getWorkingDaysInRangeStep(st) ==
    Bind(getDayInfo(st.self, DateArg(st.current)), LAMBDA dayInfo :
        IF ~dayInfo.ok THEN dayInfo
        ELSE [ok |-> TRUE,
              self |-> dayInfo.self,
              current |-> addDays(st.current, 1),
              days |-> IF dayInfo.value.isWorkingDay
                       THEN Append(st.days, dayInfo.value) ELSE st.days])

\* while (current <= end) { ... }; no comparison with the invalid Date holds
RECURSIVE getWorkingDaysInRangeLoop(_, _)
getWorkingDaysInRangeLoop(st, end) ==
    IF st.ok /\ st.current # NaN /\ st.current <= end
    THEN Bind(getWorkingDaysInRangeStep(st), LAMBDA next :
            getWorkingDaysInRangeLoop(next, end))
    ELSE st

getWorkingDaysInRange(self, startDate, endDate) ==
    Bind(normalizeDate(startDate), LAMBDA start :
        IF ~start.ok THEN Thrown(start.error, self)
        ELSE
        Bind(normalizeDate(endDate), LAMBDA end :
        IF ~end.ok THEN Thrown(end.error, self)
        ELSE Bind(getWorkingDaysInRangeLoop([ok |-> TRUE, self |-> self,
                                             current |-> start.value,
                                             days |-> <<>>], end.value),
                  LAMBDA loop :
                    IF ~loop.ok THEN loop
                    ELSE Returned(loop.days, loop.self))))

getNonWorkingDaysInRangeStep(st) ==
    Bind(getDayInfo(st.self, DateArg(st.current)), LAMBDA dayInfo :
        IF ~dayInfo.ok THEN dayInfo
        ELSE [ok |-> TRUE,
              self |-> dayInfo.self,
              current |-> addDays(st.current, 1),
              days |-> IF ~dayInfo.value.isWorkingDay
                       THEN Append(st.days, dayInfo.value) ELSE st.days])

RECURSIVE getNonWorkingDaysInRangeLoop(_, _)
getNonWorkingDaysInRangeLoop(st, end) ==
    IF st.ok /\ st.current # NaN /\ st.current <= end
    THEN Bind(getNonWorkingDaysInRangeStep(st), LAMBDA next :
            getNonWorkingDaysInRangeLoop(next, end))
    ELSE st

getNonWorkingDaysInRange(self, startDate, endDate) ==
    Bind(normalizeDate(startDate), LAMBDA start :
        IF ~start.ok THEN Thrown(start.error, self)
        ELSE
        Bind(normalizeDate(endDate), LAMBDA end :
        IF ~end.ok THEN Thrown(end.error, self)
        ELSE Bind(getNonWorkingDaysInRangeLoop([ok |-> TRUE, self |-> self,
                                                current |-> start.value,
                                                days |-> <<>>], end.value),
                  LAMBDA loop :
                    IF ~loop.ok THEN loop
                    ELSE Returned(loop.days, loop.self))))

countWorkingDays(self, startDate, endDate) ==
    Bind(getWorkingDaysInRange(self, startDate, endDate), LAMBDA days :
        IF ~days.ok THEN days
        ELSE Returned(Len(days.value), days.self))

\* while (!this.isWorkingDay(nextDay)) { nextDay = addDays(nextDay, 1) }; the
\* loop state is [ok, self, nextDay], or what isWorkingDay throws
RECURSIVE getNextWorkingDayLoop(_)
getNextWorkingDayLoop(st) ==
    Bind(isWorkingDay(st.self, DateArg(st.nextDay)), LAMBDA w :
        IF ~w.ok THEN w
        ELSE IF ~w.value
        THEN getNextWorkingDayLoop([ok |-> TRUE, self |-> w.self,
                                    nextDay |-> addDays(st.nextDay, 1)])
        ELSE [ok |-> TRUE, self |-> w.self, nextDay |-> st.nextDay])

getNextWorkingDay(self, date) ==
    Bind(normalizeDate(date), LAMBDA n :
        IF ~n.ok THEN Thrown(n.error, self)
        ELSE Bind(getNextWorkingDayLoop([ok |-> TRUE, self |-> self,
                                         nextDay |-> addDays(n.value, 1)]),
                  LAMBDA loop :
                    IF ~loop.ok THEN loop
                    ELSE Returned(loop.nextDay, loop.self)))

\* while (!this.isWorkingDay(prevDay)) { prevDay = addDays(prevDay, -1) }; the
\* loop state is [ok, self, prevDay], or what isWorkingDay throws
RECURSIVE getPreviousWorkingDayLoop(_)
getPreviousWorkingDayLoop(st) ==
    Bind(isWorkingDay(st.self, DateArg(st.prevDay)), LAMBDA w :
        IF ~w.ok THEN w
        ELSE IF ~w.value
        THEN getPreviousWorkingDayLoop([ok |-> TRUE, self |-> w.self,
                                        prevDay |-> addDays(st.prevDay, 0 - 1)])
        ELSE [ok |-> TRUE, self |-> w.self, prevDay |-> st.prevDay])

getPreviousWorkingDay(self, date) ==
    Bind(normalizeDate(date), LAMBDA n :
        IF ~n.ok THEN Thrown(n.error, self)
        ELSE Bind(getPreviousWorkingDayLoop([ok |-> TRUE, self |-> self,
                                             prevDay |-> addDays(n.value, 0 - 1)]),
                  LAMBDA loop :
                    IF ~loop.ok THEN loop
                    ELSE Returned(loop.prevDay, loop.self)))

\* updateCustomHolidays that leaves the cache as it is
updateCustomHolidays_keepsCache(self, customHolidays) ==
    Returned(Undefined,
             [self EXCEPT !.customHolidays = mapCustomHolidays(customHolidays)])

updateCustomHolidays(self, customHolidays) ==
    Returned(Undefined,
             [self EXCEPT !.customHolidays = mapCustomHolidays(customHolidays),
                          !.holidayCache = <<>>])

-----------------------------------------------------------------------------
(* Rules (src/rules/power.ts, src/rules/gas.ts, src/unnamed/part_003,      *)
(* src/unnamed/part_004)                                                   *)

POWER == "power"
GAS == "gas"
RELOCATION == "relocation"
SWITCH == "switch"

POWER_RULES ==
    << [id |-> "power_relocation", commodity |-> POWER, useCase |-> RELOCATION,
        requiresTermination |-> FALSE, requiredWorkingDays |-> 1,
        allowsRetrospective |-> FALSE,
        description |-> "Power contract relocation requires 1 working day lead time"],
       [id |-> "power_switch_no_termination", commodity |-> POWER, useCase |-> SWITCH,
        requiresTermination |-> FALSE, requiredWorkingDays |-> 1,
        allowsRetrospective |-> FALSE,
        description |-> "Power contract switch without termination requires 1 working day lead time"],
       [id |-> "power_switch_with_termination", commodity |-> POWER, useCase |-> SWITCH,
        requiresTermination |-> TRUE, requiredWorkingDays |-> 2,
        allowsRetrospective |-> FALSE,
        description |-> "Power contract switch with termination requires 2 working days lead time"] >>

GAS_RULES ==
    << [id |-> "gas_relocation", commodity |-> GAS, useCase |-> RELOCATION,
        requiresTermination |-> FALSE, requiredWorkingDays |-> 0,
        allowsRetrospective |-> TRUE, maxRetrospectiveDays |-> 6 * 7,
        description |-> "Retrospective switching of gas contracts for move-ins and new registrations"],
       [id |-> "gas_switch_no_termination", commodity |-> GAS, useCase |-> SWITCH,
        requiresTermination |-> FALSE, requiredWorkingDays |-> 10,
        allowsRetrospective |-> FALSE,
        description |-> "Gas contract switch without termination requires 10 working days lead time"],
       [id |-> "gas_switch_with_termination", commodity |-> GAS, useCase |-> SWITCH,
        requiresTermination |-> TRUE, requiredWorkingDays |-> 13,
        allowsRetrospective |-> FALSE,
        description |-> "Gas contract switch with termination requires 13 working days lead time"] >>

\* a default table with one more rule, for power relocation with termination
DEFAULT_DEADLINE_RULES_withRelocationTermination ==
    POWER_RULES \o GAS_RULES
    \o << [id |-> "power_relocation_with_termination", commodity |-> POWER,
           useCase |-> RELOCATION, requiresTermination |-> TRUE,
           requiredWorkingDays |-> 1, allowsRetrospective |-> FALSE,
           description |-> "Power contract relocation with termination"] >>

DEFAULT_DEADLINE_RULES == POWER_RULES \o GAS_RULES

\* rules.find(...) when no rule matches
NoRule == [isRule |-> FALSE]

SwitchingCase(commodity, useCase, requiresTermination) ==
    [commodity |-> commodity, useCase |-> useCase,
     requiresTermination |-> requiresTermination]

\* a lookup that returns the last matching rule of the table
findApplicableRule_lastMatch(commodity, useCase, requiresTermination, rules) ==
    LET matches(rule) == /\ rule.commodity = commodity
                         /\ rule.useCase = useCase
                         /\ rule.requiresTermination = requiresTermination
        found == SelectSeq(rules, matches)
    IN  IF found = <<>> THEN NoRule ELSE found[Len(found)]

findApplicableRule(commodity, useCase, requiresTermination, rules) ==
    LET matches(rule) == /\ rule.commodity = commodity
                         /\ rule.useCase = useCase
                         /\ rule.requiresTermination = requiresTermination
        found == SelectSeq(rules, matches)
    IN  IF found = <<>> THEN NoRule ELSE Head(found)

-----------------------------------------------------------------------------
(* DeadlineCalculator (src/unnamed/part_002, lines 545-730).  A calculator *)
(* is its rule list; its calendarProvider is the provider passed to each   *)
(* operation as self.  An absent fromDate is NoDate and now is the system  *)
(* date that new Date() then reads.                                        *)

NoDate == [kind |-> "undefined"]

\* a constructor that puts the custom rules in front of the default table
newDeadlineCalculatorRules_merged(options) ==
    IF "customRules" \in DOMAIN options
    THEN options.customRules \o DEFAULT_DEADLINE_RULES
    ELSE DEFAULT_DEADLINE_RULES

\* constructor: this.rules = options?.customRules ?? DEFAULT_DEADLINE_RULES
newDeadlineCalculatorRules(options) ==
    IF "customRules" \in DOMAIN options
    THEN options.customRules
    ELSE DEFAULT_DEADLINE_RULES

\* getRule that falls back to the default table
getRule_orDefault(calcRules, switchingCase) ==
    IF findApplicableRule(switchingCase.commodity, switchingCase.useCase,
                          switchingCase.requiresTermination, calcRules) = NoRule
    THEN findApplicableRule(switchingCase.commodity, switchingCase.useCase,
                            switchingCase.requiresTermination,
                            DEFAULT_DEADLINE_RULES)
    ELSE findApplicableRule(switchingCase.commodity, switchingCase.useCase,
                            switchingCase.requiresTermination, calcRules)

getRule(calcRules, switchingCase) ==
    findApplicableRule(switchingCase.commodity, switchingCase.useCase,
                       switchingCase.requiresTermination, calcRules)

\* getRules handing out the array the calculator itself holds
getRules_internalArray(calcRules) ==
    [array |-> "this.rules", items |-> calcRules]

\* return [...this.rules]: a new array that holds the rules of this.rules
getRules(calcRules) ==
    [array |-> "new", items |-> [i \in 1..Len(calcRules) |-> calcRules[i]]]

NoRuleFoundError(switchingCase) ==
    << "No rule found for", switchingCase.commodity, switchingCase.useCase,
       IF switchingCase.requiresTermination THEN "with" ELSE "without",
       "termination" >>

\* the object calculateEarliestStartDate returns: [ok |-> TRUE, value |-> the
\* object] or the error toISODateString throws
EarliestStartDateResult(rule, from, earliestStartDate, isRetrospective) ==
    Bind(toISODateString(earliestStartDate), LAMBDA earliestStartDateString :
        IF ~earliestStartDateString.ok THEN earliestStartDateString
        ELSE [ok |-> TRUE,
              value |->
                [earliestStartDate |-> earliestStartDate,
                 earliestStartDateString |-> earliestStartDateString.value,
                 workingDaysApplied |-> IF isRetrospective THEN 0
                                        ELSE rule.requiredWorkingDays,
                 calendarDaysTotal |-> differenceInDays(earliestStartDate, from),
                 isRetrospective |-> isRetrospective,
                 ruleApplied |-> rule]])

\* return of calculateEarliestStartDate: the object, or what building it throws
ReturnEarliestStartDate(result, self) ==
    IF ~result.ok THEN Thrown(result.error, self)
    ELSE Returned(result.value, self)

\* calculateEarliestStartDate that reads fromDate before it looks for the rule
calculateEarliestStartDate_dateFirst(calcRules, self, switchingCase, fromDate, now) ==
    Bind(normalizeDate(IF fromDate = NoDate THEN DateArg(now) ELSE fromDate),
         LAMBDA n :
        IF ~n.ok THEN Thrown(n.error, self)
        ELSE
        Bind(getRule(calcRules, switchingCase), LAMBDA rule :
        IF rule = NoRule THEN Thrown(NoRuleFoundError(switchingCase), self)
        ELSE IF rule.allowsRetrospective
        THEN Bind(subDays(n.value, IF "maxRetrospectiveDays" \in DOMAIN rule
                                   THEN rule.maxRetrospectiveDays ELSE 0),
                  LAMBDA earliestStartDate :
                    ReturnEarliestStartDate(
                        EarliestStartDateResult(rule, n.value,
                                                earliestStartDate, TRUE),
                        self))
        ELSE Bind(addWorkingDays(self, DateArg(n.value), rule.requiredWorkingDays),
                  LAMBDA a :
                    IF ~a.ok THEN a
                    ELSE ReturnEarliestStartDate(
                             EarliestStartDateResult(rule, n.value, a.value, FALSE),
                             a.self))))

calculateEarliestStartDate(calcRules, self, switchingCase, fromDate, now) ==
    Bind(getRule(calcRules, switchingCase), LAMBDA rule :
        IF rule = NoRule THEN Thrown(NoRuleFoundError(switchingCase), self)
        ELSE
        Bind(normalizeDate(IF fromDate = NoDate THEN DateArg(now) ELSE fromDate),
             LAMBDA n :
        IF ~n.ok THEN Thrown(n.error, self)
        ELSE IF rule.allowsRetrospective
        THEN Bind(subDays(n.value, IF "maxRetrospectiveDays" \in DOMAIN rule
                                   THEN rule.maxRetrospectiveDays ELSE 0),
                  LAMBDA earliestStartDate :
                    ReturnEarliestStartDate(
                        EarliestStartDateResult(rule, n.value,
                                                earliestStartDate, TRUE),
                        self))
        ELSE Bind(addWorkingDays(self, DateArg(n.value), rule.requiredWorkingDays),
                  LAMBDA a :
                    IF ~a.ok THEN a
                    ELSE ReturnEarliestStartDate(
                             EarliestStartDateResult(rule, n.value, a.value, FALSE),
                             a.self))))

validateStartDate(calcRules, self, switchingCase, proposedDate, fromDate, now) ==
    Bind(normalizeDate(proposedDate), LAMBDA proposed :
        IF ~proposed.ok THEN Thrown(proposed.error, self)
        ELSE
        Bind(normalizeDate(IF fromDate = NoDate THEN DateArg(now) ELSE fromDate),
             LAMBDA from :
        IF ~from.ok THEN Thrown(from.error, self)
        ELSE
        Bind(calculateEarliestStartDate(calcRules, self, switchingCase,
                                        DateArg(from.value), now),
             LAMBDA c :
        IF ~c.ok THEN c
        ELSE Bind(proposed.value >= c.value.earliestStartDate, LAMBDA isValid :
                Returned((IF isValid THEN <<>>
                          ELSE [earliestValidDate |-> c.value.earliestStartDate])
                         @@ [isValid |-> isValid,
                             ruleApplied |-> c.value.ruleApplied],
                         c.self)))))

-----------------------------------------------------------------------------
(* The state machine: one CalendarProvider, one DeadlineCalculator that    *)
(* uses it, and a single-threaded caller.  The caller invokes one public   *)
(* operation at a time; the operation runs to completion in one step and   *)
(* leaves its arguments and its outcome in last, and the caller takes the  *)
(* outcome (Return) before it makes the next call.                         *)

VARIABLES
    holidayCache,        \* CalendarProvider.holidayCache
    customHolidays,      \* CalendarProvider.customHolidays
    useSpecialHolidays,  \* CalendarProvider.useSpecialHolidays
    options,             \* the options the DeadlineCalculator was constructed with
    rules,               \* DeadlineCalculator.rules
    last,                \* the call that has just completed: [op, args, result]
    appliedHolidays,     \* history: the holiday list the caller supplied last
                         \* (to the constructor or to updateCustomHolidays)
    droppedYears,        \* history: the years that were cached when
                         \* updateCustomHolidays was last called
    computeHolidaysCalls \* history: per year, how often computeHolidays has
                         \* returned its map since the provider was
                         \* constructed or updateCustomHolidays was last called

vars == <<holidayCache, customHolidays, useSpecialHolidays, options, rules, last,
          appliedHolidays, droppedYears, computeHolidaysCalls>>

\* the provider object
this == [holidayCache |-> holidayCache,
         customHolidays |-> customHolidays,
         useSpecialHolidays |-> useSpecialHolidays,
         computeHolidaysCalls |-> computeHolidaysCalls]

(* Inputs *)

MaxWorkingDays == 3     \* addWorkingDays is called with 0..MaxWorkingDays
MaxEdits == 1           \* the caller changes an array it was handed this often
MaxRangeDays == 5       \* ranges from 2025-10-01 end up to this many days later
WindowDays == 6         \* Date arguments: this many days from 2025-12-27 on

MonotoneSpan == 3       \* start dates up to this many days later are compared

Iso(y, m, d) == StringArg(<<y, m, d>>)

\* among them "2025-02-30", "2025-13-01", "2025-10", the empty string and
\* "0010-13-25", which the engine reads as October 13, 2025
StringDates ==
    { Iso(2025, 10, 1), Iso(2025, 10, 3), Iso(2025, 10, 4), Iso(2025, 5, 8),
      Iso(2025, 6, 5), Iso(2025, 6, 6), Iso(2026, 1, 5), Iso(2026, 1, 6),
      Iso(2025, 2, 30), Iso(2025, 13, 1), Iso(10, 13, 25), StringArg(<<2025, 10>>),
      StringArg(<<>>) }

DateObjects ==
    { DateArg(DayNumber(2025, 12, 27) + i) : i \in 0..(WindowDays - 1) }
    \cup { InvalidDate }

DateArgs == StringDates \cup DateObjects

FromArgs ==
    { Iso(2025, 10, 1), Iso(2025, 6, 5), Iso(2025, 2, 30), Iso(2025, 13, 1),
      DateArg(DayNumber(2025, 12, 30)), NoDate }

ProposedArgs ==
    { Iso(2025, 10, 2), Iso(2025, 10, 7), Iso(2025, 8, 20), StringArg(<<>>) }

ValidateFromArgs == { Iso(2025, 10, 1), Iso(2025, 13, 1), NoDate }

RangeArgs ==
    { <<Iso(2025, 10, 1), DateArg(DayNumber(2025, 10, 1) + k)>> :
        k \in 0..MaxRangeDays }
    \cup { <<Iso(2025, 12, 22), Iso(2026, 1, 5)>>,
           <<Iso(2025, 10, 6), Iso(2025, 10, 1)>>,
           <<Iso(2025, 13, 1), Iso(2025, 10, 1)>>,
           <<Iso(2025, 10, 1), StringArg(<<>>)>> }

\* what new Date() reads
SystemDates == { DayNumber(2025, 10, 1) }

SwitchingCases ==
    { SwitchingCase(c, u, t) : c \in {POWER, GAS}, u \in {RELOCATION, SWITCH},
                               t \in BOOLEAN }

CustomHolidayLists ==
    { <<>>,
      << [date |-> <<2025, 10, 1>>, name |-> "Betriebsruhe",
          description |-> "Company holiday"],
         [date |-> <<2025, 10, 4>>, name |-> "Inventur"] >>,
      << [date |-> <<2026, 1, 2>>, name |-> "Brueckentag", type |-> PUBLIC_HOLIDAY,
          bundeslaender |-> <<"BY">>],
         [date |-> <<2025, 12, 24>>, name |-> "Werksferien"] >> }

CustomRuleLists ==
    { <<>>,
      << [id |-> "custom_power", commodity |-> POWER, useCase |-> SWITCH,
          requiresTermination |-> FALSE, requiredWorkingDays |-> 5,
          allowsRetrospective |-> FALSE, description |-> "Custom power rule"],
         [id |-> "custom_gas", commodity |-> GAS, useCase |-> SWITCH,
          requiresTermination |-> TRUE, requiredWorkingDays |-> 3,
          allowsRetrospective |-> TRUE, maxRetrospectiveDays |-> 14,
          description |-> "Custom retrospective gas rule"],
         [id |-> "custom_relocation", commodity |-> POWER, useCase |-> RELOCATION,
          requiresTermination |-> TRUE, requiredWorkingDays |-> 0,
          allowsRetrospective |-> TRUE,
          description |-> "Custom retrospective rule without a maximum"],
         [id |-> "custom_power_late", commodity |-> POWER, useCase |-> SWITCH,
          requiresTermination |-> FALSE, requiredWorkingDays |-> 7,
          allowsRetrospective |-> FALSE,
          description |-> "Second custom rule for the triple of custom_power"] >> }

CalculatorOptions ==
    { <<>> } \cup { [customRules |-> r] : r \in CustomRuleLists }

NoCall == [op |-> "none"]

Call(op, args, r) ==
    [op |-> op, args |-> args,
     result |-> [f \in (DOMAIN r) \ {"self"} |-> r[f]]]

Init ==
    /\ useSpecialHolidays \in BOOLEAN
    /\ \E holidays \in CustomHolidayLists :
          /\ customHolidays = newCalendarProvider(holidays, useSpecialHolidays).customHolidays
          /\ holidayCache = newCalendarProvider(holidays, useSpecialHolidays).holidayCache
          /\ appliedHolidays = holidays
    /\ droppedYears = {}
    /\ computeHolidaysCalls = <<>>
    /\ options \in CalculatorOptions
    /\ rules = newDeadlineCalculatorRules(options)
    /\ last = NoCall

\* Each operation below is one call by the caller: r is what the call yields,
\* the provider becomes r.self and last records the call.

IsHoliday ==
    /\ last = NoCall
    /\ \E date \in DateArgs : \E r \in {isHoliday(this, date)} :
        /\ holidayCache' = r.self.holidayCache
        /\ customHolidays' = r.self.customHolidays
        /\ useSpecialHolidays' = r.self.useSpecialHolidays
        /\ computeHolidaysCalls' = r.self.computeHolidaysCalls
        /\ last' = Call("isHoliday", <<date>>, r)
    /\ UNCHANGED <<options, rules, appliedHolidays, droppedYears>>

IsWorkingDay ==
    /\ last = NoCall
    /\ \E date \in DateArgs : \E r \in {isWorkingDay(this, date)} :
        /\ holidayCache' = r.self.holidayCache
        /\ customHolidays' = r.self.customHolidays
        /\ useSpecialHolidays' = r.self.useSpecialHolidays
        /\ computeHolidaysCalls' = r.self.computeHolidaysCalls
        /\ last' = Call("isWorkingDay", <<date>>, r)
    /\ UNCHANGED <<options, rules, appliedHolidays, droppedYears>>

GetDayInfo ==
    /\ last = NoCall
    /\ \E date \in DateArgs : \E r \in {getDayInfo(this, date)} :
        /\ holidayCache' = r.self.holidayCache
        /\ customHolidays' = r.self.customHolidays
        /\ useSpecialHolidays' = r.self.useSpecialHolidays
        /\ computeHolidaysCalls' = r.self.computeHolidaysCalls
        /\ last' = Call("getDayInfo", <<date>>, r)
    /\ UNCHANGED <<options, rules, appliedHolidays, droppedYears>>

AddWorkingDays ==
    /\ last = NoCall
    /\ \E startDate \in DateArgs, workingDays \in 0..MaxWorkingDays :
       \E r \in {addWorkingDays(this, startDate, workingDays)} :
        /\ holidayCache' = r.self.holidayCache
        /\ customHolidays' = r.self.customHolidays
        /\ useSpecialHolidays' = r.self.useSpecialHolidays
        /\ computeHolidaysCalls' = r.self.computeHolidaysCalls
        /\ last' = Call("addWorkingDays", <<startDate, workingDays>>, r)
    /\ UNCHANGED <<options, rules, appliedHolidays, droppedYears>>

UpdateCustomHolidays ==
    /\ last = NoCall
    /\ \E holidays \in CustomHolidayLists :
       \E r \in {updateCustomHolidays(this, holidays)} :
        /\ holidayCache' = r.self.holidayCache
        /\ customHolidays' = r.self.customHolidays
        /\ useSpecialHolidays' = r.self.useSpecialHolidays
        /\ last' = Call("updateCustomHolidays", <<holidays>>, r)
        /\ appliedHolidays' = holidays
    /\ droppedYears' = DOMAIN holidayCache
    /\ computeHolidaysCalls' = <<>>
    /\ UNCHANGED <<options, rules>>

CalculateEarliestStartDate ==
    /\ last = NoCall
    /\ \E switchingCase \in SwitchingCases, fromDate \in FromArgs, now \in SystemDates :
       \E r \in {calculateEarliestStartDate(rules, this, switchingCase, fromDate, now)} :
        /\ holidayCache' = r.self.holidayCache
        /\ customHolidays' = r.self.customHolidays
        /\ useSpecialHolidays' = r.self.useSpecialHolidays
        /\ computeHolidaysCalls' = r.self.computeHolidaysCalls
        /\ last' = Call("calculateEarliestStartDate",
                        <<switchingCase, fromDate, now>>, r)
    /\ UNCHANGED <<options, rules, appliedHolidays, droppedYears>>

ValidateStartDate ==
    /\ last = NoCall
    /\ \E switchingCase \in SwitchingCases, proposedDate \in ProposedArgs,
          fromDate \in ValidateFromArgs, now \in SystemDates :
       \E r \in {validateStartDate(rules, this, switchingCase, proposedDate,
                                   fromDate, now)} :
        /\ holidayCache' = r.self.holidayCache
        /\ customHolidays' = r.self.customHolidays
        /\ useSpecialHolidays' = r.self.useSpecialHolidays
        /\ computeHolidaysCalls' = r.self.computeHolidaysCalls
        /\ last' = Call("validateStartDate",
                        <<switchingCase, proposedDate, fromDate, now>>, r)
    /\ UNCHANGED <<options, rules, appliedHolidays, droppedYears>>

GetWorkingDaysInRange ==
    /\ last = NoCall
    /\ \E range \in RangeArgs :
       \E r \in {getWorkingDaysInRange(this, range[1], range[2])} :
        /\ holidayCache' = r.self.holidayCache
        /\ customHolidays' = r.self.customHolidays
        /\ useSpecialHolidays' = r.self.useSpecialHolidays
        /\ computeHolidaysCalls' = r.self.computeHolidaysCalls
        /\ last' = Call("getWorkingDaysInRange", range, r)
    /\ UNCHANGED <<options, rules, appliedHolidays, droppedYears>>

GetNonWorkingDaysInRange ==
    /\ last = NoCall
    /\ \E range \in RangeArgs :
       \E r \in {getNonWorkingDaysInRange(this, range[1], range[2])} :
        /\ holidayCache' = r.self.holidayCache
        /\ customHolidays' = r.self.customHolidays
        /\ useSpecialHolidays' = r.self.useSpecialHolidays
        /\ computeHolidaysCalls' = r.self.computeHolidaysCalls
        /\ last' = Call("getNonWorkingDaysInRange", range, r)
    /\ UNCHANGED <<options, rules, appliedHolidays, droppedYears>>

CountWorkingDays ==
    /\ last = NoCall
    /\ \E range \in RangeArgs :
       \E r \in {countWorkingDays(this, range[1], range[2])} :
        /\ holidayCache' = r.self.holidayCache
        /\ customHolidays' = r.self.customHolidays
        /\ useSpecialHolidays' = r.self.useSpecialHolidays
        /\ computeHolidaysCalls' = r.self.computeHolidaysCalls
        /\ last' = Call("countWorkingDays", range, r)
    /\ UNCHANGED <<options, rules, appliedHolidays, droppedYears>>

GetNextWorkingDay ==
    /\ last = NoCall
    /\ \E date \in DateArgs : \E r \in {getNextWorkingDay(this, date)} :
        /\ holidayCache' = r.self.holidayCache
        /\ customHolidays' = r.self.customHolidays
        /\ useSpecialHolidays' = r.self.useSpecialHolidays
        /\ computeHolidaysCalls' = r.self.computeHolidaysCalls
        /\ last' = Call("getNextWorkingDay", <<date>>, r)
    /\ UNCHANGED <<options, rules, appliedHolidays, droppedYears>>

GetPreviousWorkingDay ==
    /\ last = NoCall
    /\ \E date \in DateArgs : \E r \in {getPreviousWorkingDay(this, date)} :
        /\ holidayCache' = r.self.holidayCache
        /\ customHolidays' = r.self.customHolidays
        /\ useSpecialHolidays' = r.self.useSpecialHolidays
        /\ computeHolidaysCalls' = r.self.computeHolidaysCalls
        /\ last' = Call("getPreviousWorkingDay", <<date>>, r)
    /\ UNCHANGED <<options, rules, appliedHolidays, droppedYears>>

GetRule ==
    /\ last = NoCall
    /\ \E switchingCase \in SwitchingCases :
       \E r \in {Returned(getRule(rules, switchingCase), this)} :
        last' = Call("getRule", <<switchingCase>>, r)
    /\ UNCHANGED <<holidayCache, customHolidays, useSpecialHolidays, options, rules,
                   appliedHolidays, droppedYears, computeHolidaysCalls>>

GetRules ==
    /\ last = NoCall
    /\ \E r \in {Returned(getRules(rules), this)} :
        last' = Call("getRules", <<>>, r) @@ [edits |-> 0]
    /\ UNCHANGED <<holidayCache, customHolidays, useSpecialHolidays, options, rules,
                   appliedHolidays, droppedYears, computeHolidaysCalls>>

\* what a caller can do to an array: push a rule, shift, reverse
ArrayEdits(items) ==
    { Append(items, [id |-> "pushed", commodity |-> GAS, useCase |-> RELOCATION,
                     requiresTermination |-> TRUE, requiredWorkingDays |-> 1,
                     allowsRetrospective |-> FALSE,
                     description |-> "Rule pushed by the caller"]),
      IF items = <<>> THEN items ELSE Tail(items),
      [i \in 1..Len(items) |-> items[Len(items) + 1 - i]] }

\* the caller changes the array getRules returned; an array is one object, so
\* when it is the calculator's own array the calculator's rules change with it
CallerEditsRules ==
    /\ last.op = "getRules"
    /\ last.edits < MaxEdits
    /\ \E edited \in ArrayEdits(last.result.value.items) :
        /\ last' = [last EXCEPT !.result.value.items = edited, !.edits = @ + 1]
        /\ rules' = IF last.result.value.array = "this.rules" THEN edited ELSE rules
    /\ UNCHANGED <<holidayCache, customHolidays, useSpecialHolidays, options,
                   appliedHolidays, droppedYears, computeHolidaysCalls>>

\* the caller takes the outcome of the call
Return ==
    /\ last # NoCall
    /\ last' = NoCall
    /\ UNCHANGED <<holidayCache, customHolidays, useSpecialHolidays, options, rules,
                   appliedHolidays, droppedYears, computeHolidaysCalls>>

Next ==
    \/ IsHoliday
    \/ IsWorkingDay
    \/ GetDayInfo
    \/ AddWorkingDays
    \/ UpdateCustomHolidays
    \/ CalculateEarliestStartDate
    \/ ValidateStartDate
    \/ GetWorkingDaysInRange
    \/ GetNonWorkingDaysInRange
    \/ CountWorkingDays
    \/ GetNextWorkingDay
    \/ GetPreviousWorkingDay
    \/ GetRule
    \/ GetRules
    \/ CallerEditsRules
    \/ Return

Spec == Init /\ [][Next]_vars

-----------------------------------------------------------------------------
(* The calendar over several years: the same provider, in every            *)
(* configuration, asked about single days of a range of years and for the  *)
(* examples its documentation gives.                                       *)

YearsChecked == 4       \* the years 2024 .. 2024 + YearsChecked - 1

Years == { 2024 + i : i \in 0..(YearsChecked - 1) }

\* "0999-12-24": a year before 1000, which an ISO 8601 date writes with
\* leading zeros
YearDates ==
    { Iso(year, 12, 24) : year \in Years } \cup { Iso(year, 12, 31) : year \in Years }
    \cup { Iso(2025, 12, 27), Iso(2025, 13, 1), Iso(999, 12, 24) }

\* the @example calls in the documentation of addWorkingDays
AddWorkingDaysExamples ==
    { <<Iso(2024, 7, 12), 5>>, <<Iso(2024, 12, 20), 3>> }

YearsIsHoliday ==
    /\ last = NoCall
    /\ \E date \in YearDates : \E r \in {isHoliday(this, date)} :
        /\ holidayCache' = r.self.holidayCache
        /\ customHolidays' = r.self.customHolidays
        /\ useSpecialHolidays' = r.self.useSpecialHolidays
        /\ computeHolidaysCalls' = r.self.computeHolidaysCalls
        /\ last' = Call("isHoliday", <<date>>, r)
    /\ UNCHANGED <<options, rules, appliedHolidays, droppedYears>>

YearsIsWorkingDay ==
    /\ last = NoCall
    /\ \E date \in YearDates : \E r \in {isWorkingDay(this, date)} :
        /\ holidayCache' = r.self.holidayCache
        /\ customHolidays' = r.self.customHolidays
        /\ useSpecialHolidays' = r.self.useSpecialHolidays
        /\ computeHolidaysCalls' = r.self.computeHolidaysCalls
        /\ last' = Call("isWorkingDay", <<date>>, r)
    /\ UNCHANGED <<options, rules, appliedHolidays, droppedYears>>

YearsGetDayInfo ==
    /\ last = NoCall
    /\ \E date \in YearDates : \E r \in {getDayInfo(this, date)} :
        /\ holidayCache' = r.self.holidayCache
        /\ customHolidays' = r.self.customHolidays
        /\ useSpecialHolidays' = r.self.useSpecialHolidays
        /\ computeHolidaysCalls' = r.self.computeHolidaysCalls
        /\ last' = Call("getDayInfo", <<date>>, r)
    /\ UNCHANGED <<options, rules, appliedHolidays, droppedYears>>

ExampleAddWorkingDays ==
    /\ last = NoCall
    /\ \E example \in AddWorkingDaysExamples :
       \E r \in {addWorkingDays(this, example[1], example[2])} :
        /\ holidayCache' = r.self.holidayCache
        /\ customHolidays' = r.self.customHolidays
        /\ useSpecialHolidays' = r.self.useSpecialHolidays
        /\ computeHolidaysCalls' = r.self.computeHolidaysCalls
        /\ last' = Call("addWorkingDays", example, r)
    /\ UNCHANGED <<options, rules, appliedHolidays, droppedYears>>

YearsNext ==
    \/ YearsIsHoliday
    \/ YearsIsWorkingDay
    \/ YearsGetDayInfo
    \/ ExampleAddWorkingDays
    \/ Return

YearsSpec == Init /\ [][YearsNext]_vars

-----------------------------------------------------------------------------
(* The years 0 to 99: the provider and the calculator asked about dates of *)
(* the year 50, given as strings.  normalizeDate takes the year of a       *)
(* string as written and hands the operation a Date of the year 50; an     *)
(* operation that passes this Date on to another one has it normalized     *)
(* again, through Date.UTC.                                                *)

\* "0050-01-01" is a Saturday, "0050-03-24" a Thursday and "0050-12-26" a
\* Monday
EarlyDates == { Iso(50, 1, 1), Iso(50, 3, 24), Iso(50, 12, 26) }

\* the Date is the last day of the year 99
EarlyStartDates == { Iso(50, 3, 24), DateArg(DayNumber(99, 12, 31)) }

EarlyFromArgs == { Iso(50, 3, 24), Iso(50, 6, 1), DateArg(DayNumber(50, 6, 1)) }

EarlyProposedArgs == { Iso(50, 4, 20), Iso(1950, 4, 20) }

\* Monday "0050-03-21" to Friday "0050-03-25"
EarlyRanges == { <<Iso(50, 3, 21), Iso(50, 3, 25)>> }

EarlyIsHoliday ==
    /\ last = NoCall
    /\ \E date \in EarlyDates : \E r \in {isHoliday(this, date)} :
        /\ holidayCache' = r.self.holidayCache
        /\ customHolidays' = r.self.customHolidays
        /\ useSpecialHolidays' = r.self.useSpecialHolidays
        /\ computeHolidaysCalls' = r.self.computeHolidaysCalls
        /\ last' = Call("isHoliday", <<date>>, r)
    /\ UNCHANGED <<options, rules, appliedHolidays, droppedYears>>

EarlyIsWorkingDay ==
    /\ last = NoCall
    /\ \E date \in EarlyDates : \E r \in {isWorkingDay(this, date)} :
        /\ holidayCache' = r.self.holidayCache
        /\ customHolidays' = r.self.customHolidays
        /\ useSpecialHolidays' = r.self.useSpecialHolidays
        /\ computeHolidaysCalls' = r.self.computeHolidaysCalls
        /\ last' = Call("isWorkingDay", <<date>>, r)
    /\ UNCHANGED <<options, rules, appliedHolidays, droppedYears>>

EarlyGetDayInfo ==
    /\ last = NoCall
    /\ \E date \in EarlyDates : \E r \in {getDayInfo(this, date)} :
        /\ holidayCache' = r.self.holidayCache
        /\ customHolidays' = r.self.customHolidays
        /\ useSpecialHolidays' = r.self.useSpecialHolidays
        /\ computeHolidaysCalls' = r.self.computeHolidaysCalls
        /\ last' = Call("getDayInfo", <<date>>, r)
    /\ UNCHANGED <<options, rules, appliedHolidays, droppedYears>>

EarlyGetNextWorkingDay ==
    /\ last = NoCall
    /\ \E date \in EarlyDates : \E r \in {getNextWorkingDay(this, date)} :
        /\ holidayCache' = r.self.holidayCache
        /\ customHolidays' = r.self.customHolidays
        /\ useSpecialHolidays' = r.self.useSpecialHolidays
        /\ computeHolidaysCalls' = r.self.computeHolidaysCalls
        /\ last' = Call("getNextWorkingDay", <<date>>, r)
    /\ UNCHANGED <<options, rules, appliedHolidays, droppedYears>>

EarlyGetPreviousWorkingDay ==
    /\ last = NoCall
    /\ \E date \in EarlyDates : \E r \in {getPreviousWorkingDay(this, date)} :
        /\ holidayCache' = r.self.holidayCache
        /\ customHolidays' = r.self.customHolidays
        /\ useSpecialHolidays' = r.self.useSpecialHolidays
        /\ computeHolidaysCalls' = r.self.computeHolidaysCalls
        /\ last' = Call("getPreviousWorkingDay", <<date>>, r)
    /\ UNCHANGED <<options, rules, appliedHolidays, droppedYears>>

EarlyAddWorkingDays ==
    /\ last = NoCall
    /\ \E startDate \in EarlyStartDates, workingDays \in 0..MaxWorkingDays :
       \E r \in {addWorkingDays(this, startDate, workingDays)} :
        /\ holidayCache' = r.self.holidayCache
        /\ customHolidays' = r.self.customHolidays
        /\ useSpecialHolidays' = r.self.useSpecialHolidays
        /\ computeHolidaysCalls' = r.self.computeHolidaysCalls
        /\ last' = Call("addWorkingDays", <<startDate, workingDays>>, r)
    /\ UNCHANGED <<options, rules, appliedHolidays, droppedYears>>

EarlyGetWorkingDaysInRange ==
    /\ last = NoCall
    /\ \E range \in EarlyRanges :
       \E r \in {getWorkingDaysInRange(this, range[1], range[2])} :
        /\ holidayCache' = r.self.holidayCache
        /\ customHolidays' = r.self.customHolidays
        /\ useSpecialHolidays' = r.self.useSpecialHolidays
        /\ computeHolidaysCalls' = r.self.computeHolidaysCalls
        /\ last' = Call("getWorkingDaysInRange", range, r)
    /\ UNCHANGED <<options, rules, appliedHolidays, droppedYears>>

EarlyGetNonWorkingDaysInRange ==
    /\ last = NoCall
    /\ \E range \in EarlyRanges :
       \E r \in {getNonWorkingDaysInRange(this, range[1], range[2])} :
        /\ holidayCache' = r.self.holidayCache
        /\ customHolidays' = r.self.customHolidays
        /\ useSpecialHolidays' = r.self.useSpecialHolidays
        /\ computeHolidaysCalls' = r.self.computeHolidaysCalls
        /\ last' = Call("getNonWorkingDaysInRange", range, r)
    /\ UNCHANGED <<options, rules, appliedHolidays, droppedYears>>

EarlyCountWorkingDays ==
    /\ last = NoCall
    /\ \E range \in EarlyRanges :
       \E r \in {countWorkingDays(this, range[1], range[2])} :
        /\ holidayCache' = r.self.holidayCache
        /\ customHolidays' = r.self.customHolidays
        /\ useSpecialHolidays' = r.self.useSpecialHolidays
        /\ computeHolidaysCalls' = r.self.computeHolidaysCalls
        /\ last' = Call("countWorkingDays", range, r)
    /\ UNCHANGED <<options, rules, appliedHolidays, droppedYears>>

EarlyCalculateEarliestStartDate ==
    /\ last = NoCall
    /\ \E switchingCase \in SwitchingCases, fromDate \in EarlyFromArgs,
          now \in SystemDates :
       \E r \in {calculateEarliestStartDate(rules, this, switchingCase, fromDate, now)} :
        /\ holidayCache' = r.self.holidayCache
        /\ customHolidays' = r.self.customHolidays
        /\ useSpecialHolidays' = r.self.useSpecialHolidays
        /\ computeHolidaysCalls' = r.self.computeHolidaysCalls
        /\ last' = Call("calculateEarliestStartDate",
                        <<switchingCase, fromDate, now>>, r)
    /\ UNCHANGED <<options, rules, appliedHolidays, droppedYears>>

EarlyValidateStartDate ==
    /\ last = NoCall
    /\ \E switchingCase \in SwitchingCases, proposedDate \in EarlyProposedArgs,
          fromDate \in EarlyFromArgs, now \in SystemDates :
       \E r \in {validateStartDate(rules, this, switchingCase, proposedDate,
                                   fromDate, now)} :
        /\ holidayCache' = r.self.holidayCache
        /\ customHolidays' = r.self.customHolidays
        /\ useSpecialHolidays' = r.self.useSpecialHolidays
        /\ computeHolidaysCalls' = r.self.computeHolidaysCalls
        /\ last' = Call("validateStartDate",
                        <<switchingCase, proposedDate, fromDate, now>>, r)
    /\ UNCHANGED <<options, rules, appliedHolidays, droppedYears>>

EarlyNext ==
    \/ EarlyIsHoliday
    \/ EarlyIsWorkingDay
    \/ EarlyGetDayInfo
    \/ EarlyGetNextWorkingDay
    \/ EarlyGetPreviousWorkingDay
    \/ EarlyAddWorkingDays
    \/ EarlyGetWorkingDaysInRange
    \/ EarlyGetNonWorkingDaysInRange
    \/ EarlyCountWorkingDays
    \/ EarlyCalculateEarliestStartDate
    \/ EarlyValidateStartDate
    \/ Return

EarlySpec == Init /\ [][EarlyNext]_vars

-----------------------------------------------------------------------------
(* The ends of the range of Date: the provider and the calculator asked    *)
(* about the last Date there is (+275760-09-13, day 100,000,000, a         *)
(* Saturday), the first one (-271821-04-20, day -100,000,000) and days of  *)
(* the years 275759 and 275760.                                            *)

\* the last Date, Tuesday "+275760-01-01" and Monday "+275759-12-31"
LimitDates == { DateArg(100000000), Iso(10275760, 1, 1), Iso(10275759, 12, 31) }

\* the last Date and Sunday "+275759-12-30"
LimitStartDates == { DateArg(100000000), Iso(10275759, 12, 30) }

\* the last Date and the day before it, Friday "+275760-09-12"
LimitNextDates == { DateArg(100000000), Iso(10275760, 9, 12) }

\* the first Date and the last one
LimitPreviousDates == { DateArg(0 - 100000000), DateArg(100000000) }

LimitRanges == { <<Iso(10275759, 12, 31), Iso(10275760, 1, 1)>> }

\* a switching case with its fromDate: at the first Date, and 41 and 42 days
\* after it, the cases whose rule, if they have one, allows retrospective
\* switching; at the last Date every case
LimitCalculations ==
    { <<switchingCase, DateArg(k - 100000000)>> :
        switchingCase \in { SwitchingCase(GAS, RELOCATION, FALSE),
                            SwitchingCase(POWER, RELOCATION, TRUE) },
        k \in {0, 41, 42} }
    \cup { <<switchingCase, DateArg(100000000)>> : switchingCase \in SwitchingCases }

\* the last Date is proposed
LimitProposedArgs == { DateArg(100000000) }

LimitIsHoliday ==
    /\ last = NoCall
    /\ \E date \in LimitDates : \E r \in {isHoliday(this, date)} :
        /\ holidayCache' = r.self.holidayCache
        /\ customHolidays' = r.self.customHolidays
        /\ useSpecialHolidays' = r.self.useSpecialHolidays
        /\ computeHolidaysCalls' = r.self.computeHolidaysCalls
        /\ last' = Call("isHoliday", <<date>>, r)
    /\ UNCHANGED <<options, rules, appliedHolidays, droppedYears>>

LimitIsWorkingDay ==
    /\ last = NoCall
    /\ \E date \in LimitDates : \E r \in {isWorkingDay(this, date)} :
        /\ holidayCache' = r.self.holidayCache
        /\ customHolidays' = r.self.customHolidays
        /\ useSpecialHolidays' = r.self.useSpecialHolidays
        /\ computeHolidaysCalls' = r.self.computeHolidaysCalls
        /\ last' = Call("isWorkingDay", <<date>>, r)
    /\ UNCHANGED <<options, rules, appliedHolidays, droppedYears>>

LimitGetDayInfo ==
    /\ last = NoCall
    /\ \E date \in LimitDates : \E r \in {getDayInfo(this, date)} :
        /\ holidayCache' = r.self.holidayCache
        /\ customHolidays' = r.self.customHolidays
        /\ useSpecialHolidays' = r.self.useSpecialHolidays
        /\ computeHolidaysCalls' = r.self.computeHolidaysCalls
        /\ last' = Call("getDayInfo", <<date>>, r)
    /\ UNCHANGED <<options, rules, appliedHolidays, droppedYears>>

LimitAddWorkingDays ==
    /\ last = NoCall
    /\ \E startDate \in LimitStartDates, workingDays \in 0..MaxWorkingDays :
       \E r \in {addWorkingDays(this, startDate, workingDays)} :
        /\ holidayCache' = r.self.holidayCache
        /\ customHolidays' = r.self.customHolidays
        /\ useSpecialHolidays' = r.self.useSpecialHolidays
        /\ computeHolidaysCalls' = r.self.computeHolidaysCalls
        /\ last' = Call("addWorkingDays", <<startDate, workingDays>>, r)
    /\ UNCHANGED <<options, rules, appliedHolidays, droppedYears>>

LimitGetWorkingDaysInRange ==
    /\ last = NoCall
    /\ \E range \in LimitRanges :
       \E r \in {getWorkingDaysInRange(this, range[1], range[2])} :
        /\ holidayCache' = r.self.holidayCache
        /\ customHolidays' = r.self.customHolidays
        /\ useSpecialHolidays' = r.self.useSpecialHolidays
        /\ computeHolidaysCalls' = r.self.computeHolidaysCalls
        /\ last' = Call("getWorkingDaysInRange", range, r)
    /\ UNCHANGED <<options, rules, appliedHolidays, droppedYears>>

LimitGetNextWorkingDay ==
    /\ last = NoCall
    /\ \E date \in LimitNextDates : \E r \in {getNextWorkingDay(this, date)} :
        /\ holidayCache' = r.self.holidayCache
        /\ customHolidays' = r.self.customHolidays
        /\ useSpecialHolidays' = r.self.useSpecialHolidays
        /\ computeHolidaysCalls' = r.self.computeHolidaysCalls
        /\ last' = Call("getNextWorkingDay", <<date>>, r)
    /\ UNCHANGED <<options, rules, appliedHolidays, droppedYears>>

LimitGetPreviousWorkingDay ==
    /\ last = NoCall
    /\ \E date \in LimitPreviousDates :
       \E r \in {getPreviousWorkingDay(this, date)} :
        /\ holidayCache' = r.self.holidayCache
        /\ customHolidays' = r.self.customHolidays
        /\ useSpecialHolidays' = r.self.useSpecialHolidays
        /\ computeHolidaysCalls' = r.self.computeHolidaysCalls
        /\ last' = Call("getPreviousWorkingDay", <<date>>, r)
    /\ UNCHANGED <<options, rules, appliedHolidays, droppedYears>>

LimitCalculateEarliestStartDate ==
    /\ last = NoCall
    /\ \E calculation \in LimitCalculations, now \in SystemDates :
       \E r \in {calculateEarliestStartDate(rules, this, calculation[1],
                                            calculation[2], now)} :
        /\ holidayCache' = r.self.holidayCache
        /\ customHolidays' = r.self.customHolidays
        /\ useSpecialHolidays' = r.self.useSpecialHolidays
        /\ computeHolidaysCalls' = r.self.computeHolidaysCalls
        /\ last' = Call("calculateEarliestStartDate",
                        <<calculation[1], calculation[2], now>>, r)
    /\ UNCHANGED <<options, rules, appliedHolidays, droppedYears>>

LimitValidateStartDate ==
    /\ last = NoCall
    /\ \E calculation \in LimitCalculations, proposedDate \in LimitProposedArgs,
          now \in SystemDates :
       \E r \in {validateStartDate(rules, this, calculation[1], proposedDate,
                                   calculation[2], now)} :
        /\ holidayCache' = r.self.holidayCache
        /\ customHolidays' = r.self.customHolidays
        /\ useSpecialHolidays' = r.self.useSpecialHolidays
        /\ computeHolidaysCalls' = r.self.computeHolidaysCalls
        /\ last' = Call("validateStartDate",
                        <<calculation[1], proposedDate, calculation[2], now>>, r)
    /\ UNCHANGED <<options, rules, appliedHolidays, droppedYears>>

LimitNext ==
    \/ LimitIsHoliday
    \/ LimitIsWorkingDay
    \/ LimitGetDayInfo
    \/ LimitAddWorkingDays
    \/ LimitGetWorkingDaysInRange
    \/ LimitGetNextWorkingDay
    \/ LimitGetPreviousWorkingDay
    \/ LimitCalculateEarliestStartDate
    \/ LimitValidateStartDate
    \/ Return

LimitSpec == Init /\ [][LimitNext]_vars

-----------------------------------------------------------------------------
(* The holiday catalog by itself: its exported functions of a year number, *)
(* called for a range of years.                                            *)

CatalogYearsChecked == 16   \* the years 2020 .. 2020 + CatalogYearsChecked - 1

\* and two years before 1000, one of them below 100
CatalogYears == { 2020 + i : i \in 0..(CatalogYearsChecked - 1) } \cup { 50, 999 }

GetFixedHolidays ==
    /\ last = NoCall
    /\ \E year \in CatalogYears :
        last' = Call("getFixedHolidays", <<year>>,
                     Returned(getFixedHolidays(year), this))
    /\ UNCHANGED <<holidayCache, customHolidays, useSpecialHolidays, options, rules,
                   appliedHolidays, droppedYears, computeHolidaysCalls>>

GetMovingHolidays ==
    /\ last = NoCall
    /\ \E year \in CatalogYears :
        \E r \in {getMovingHolidays(year)} :
            last' = Call("getMovingHolidays", <<year>>,
                         IF r.ok THEN Returned(r.value, this)
                         ELSE Thrown(r.error, this))
    /\ UNCHANGED <<holidayCache, customHolidays, useSpecialHolidays, options, rules,
                   appliedHolidays, droppedYears, computeHolidaysCalls>>

CatalogNext ==
    \/ GetFixedHolidays
    \/ GetMovingHolidays
    \/ Return

CatalogSpec == Init /\ [][CatalogNext]_vars

-----------------------------------------------------------------------------
(* The loops of the provider, pass by pass.  A call in progress is in last *)
(* with pc = "loop" and the loop's variables in st; each step evaluates    *)
(* the loop condition once and, when it holds, runs the body once.  The    *)
(* code runs in one thread, so a call in progress keeps taking steps.      *)

MaxScanSteps == 20      \* passes of a loop that are followed

\* the last of them is the last Date there is, Saturday +275760-09-13
ScanDates ==
    { Iso(2025, 10, 1), Iso(2025, 12, 23), DateArg(DayNumber(2026, 1, 1)),
      DateArg(100000000) }

ScanRanges ==
    { <<Iso(2025, 12, 29), Iso(2026, 1, 2)>>, <<Iso(2025, 10, 6), Iso(2025, 10, 1)>> }

ScanCalls ==
    { <<"addWorkingDays", <<date, workingDays>>>> :
        date \in ScanDates, workingDays \in 0..MaxWorkingDays }
    \cup { <<op, <<date>>>> :
            op \in {"getNextWorkingDay", "getPreviousWorkingDay"},
            date \in ScanDates }
    \cup { <<op, range>> :
            op \in {"getWorkingDaysInRange", "getNonWorkingDaysInRange"},
            range \in ScanRanges }

\* the loop variables when the loop is entered
LoopEntry(op, args) ==
    CASE op = "addWorkingDays" ->
            [date |-> normalizeDate(args[1]).value, workingDaysAdded |-> 0]
      [] op = "getNextWorkingDay" ->
            [nextDay |-> addDays(normalizeDate(args[1]).value, 1)]
      [] op = "getPreviousWorkingDay" ->
            [prevDay |-> addDays(normalizeDate(args[1]).value, 0 - 1)]
      [] op \in {"getWorkingDaysInRange", "getNonWorkingDaysInRange"} ->
            [current |-> normalizeDate(args[1]).value, days |-> <<>>]

\* one evaluation of the loop condition and, when it holds, one pass through
\* the body: [ok, continue, st, self], or what the pass throws
LoopPass(self, op, args, st) ==
    CASE op = "addWorkingDays" ->
            IF st.workingDaysAdded < args[2]
            THEN Bind(addWorkingDaysStep([ok |-> TRUE, self |-> self] @@ st),
                      LAMBDA next :
                    IF ~next.ok THEN next
                    ELSE [ok |-> TRUE, continue |-> TRUE, self |-> next.self,
                          st |-> [date |-> next.date,
                                  workingDaysAdded |-> next.workingDaysAdded]])
            ELSE [ok |-> TRUE, continue |-> FALSE, self |-> self, st |-> st]
      [] op = "getNextWorkingDay" ->
            Bind(isWorkingDay(self, DateArg(st.nextDay)), LAMBDA w :
                IF ~w.ok THEN w
                ELSE [ok |-> TRUE, continue |-> ~w.value, self |-> w.self,
                      st |-> IF ~w.value THEN [nextDay |-> addDays(st.nextDay, 1)]
                             ELSE st])
      [] op = "getPreviousWorkingDay" ->
            Bind(isWorkingDay(self, DateArg(st.prevDay)), LAMBDA w :
                IF ~w.ok THEN w
                ELSE [ok |-> TRUE, continue |-> ~w.value, self |-> w.self,
                      st |-> IF ~w.value
                             THEN [prevDay |-> addDays(st.prevDay, 0 - 1)]
                             ELSE st])
      [] op = "getWorkingDaysInRange" ->
            IF st.current # NaN /\ st.current <= normalizeDate(args[2]).value
            THEN Bind(getWorkingDaysInRangeStep([ok |-> TRUE, self |-> self] @@ st),
                      LAMBDA next :
                    IF ~next.ok THEN next
                    ELSE [ok |-> TRUE, continue |-> TRUE, self |-> next.self,
                          st |-> [current |-> next.current, days |-> next.days]])
            ELSE [ok |-> TRUE, continue |-> FALSE, self |-> self, st |-> st]
      [] op = "getNonWorkingDaysInRange" ->
            IF st.current # NaN /\ st.current <= normalizeDate(args[2]).value
            THEN Bind(getNonWorkingDaysInRangeStep([ok |-> TRUE, self |-> self] @@ st),
                      LAMBDA next :
                    IF ~next.ok THEN next
                    ELSE [ok |-> TRUE, continue |-> TRUE, self |-> next.self,
                          st |-> [current |-> next.current, days |-> next.days]])
            ELSE [ok |-> TRUE, continue |-> FALSE, self |-> self, st |-> st]

\* what the operation returns once its loop has ended
LoopResult(op, st) ==
    CASE op = "addWorkingDays" -> addDays(st.date, 1)
      [] op = "getNextWorkingDay" -> st.nextDay
      [] op = "getPreviousWorkingDay" -> st.prevDay
      [] op \in {"getWorkingDaysInRange", "getNonWorkingDaysInRange"} -> st.days

ScanStart ==
    /\ last = NoCall
    /\ \E call \in ScanCalls :
        last' = [op |-> call[1], args |-> call[2], pc |-> "loop", passes |-> 0,
                 st |-> LoopEntry(call[1], call[2])]
    /\ UNCHANGED <<holidayCache, customHolidays, useSpecialHolidays, options, rules,
                   appliedHolidays, droppedYears, computeHolidaysCalls>>

ScanStep ==
    /\ last.op # "none"
    /\ last.pc = "loop"
    /\ last.passes < MaxScanSteps
    /\ \E pass \in {LoopPass(this, last.op, last.args, last.st)} :
        /\ pass.ok
        /\ pass.continue
        /\ holidayCache' = pass.self.holidayCache
        /\ customHolidays' = pass.self.customHolidays
        /\ useSpecialHolidays' = pass.self.useSpecialHolidays
        /\ computeHolidaysCalls' = pass.self.computeHolidaysCalls
        /\ last' = [last EXCEPT !.st = pass.st, !.passes = @ + 1]
    /\ UNCHANGED <<options, rules, appliedHolidays, droppedYears>>

ScanFinish ==
    /\ last.op # "none"
    /\ last.pc = "loop"
    /\ \E pass \in {LoopPass(this, last.op, last.args, last.st)} :
        /\ IF pass.ok THEN ~pass.continue ELSE TRUE
        /\ holidayCache' = pass.self.holidayCache
        /\ customHolidays' = pass.self.customHolidays
        /\ useSpecialHolidays' = pass.self.useSpecialHolidays
        /\ computeHolidaysCalls' = pass.self.computeHolidaysCalls
        /\ last' = [op |-> last.op, args |-> last.args, pc |-> "done",
                    passes |-> last.passes,
                    result |-> IF pass.ok
                               THEN [ok |-> TRUE,
                                     value |-> LoopResult(last.op, pass.st)]
                               ELSE [ok |-> FALSE, error |-> pass.error]]
    /\ UNCHANGED <<options, rules, appliedHolidays, droppedYears>>

\* the caller takes the outcome of a call that has ended
ScanReturn ==
    /\ last.op # "none"
    /\ last.pc = "done"
    /\ last' = NoCall
    /\ UNCHANGED <<holidayCache, customHolidays, useSpecialHolidays, options, rules,
                   appliedHolidays, droppedYears, computeHolidaysCalls>>

ScanNext ==
    \/ ScanStart
    \/ ScanStep
    \/ ScanFinish
    \/ ScanReturn

ScanSpec ==
    Init /\ [][ScanNext]_vars /\ WF_vars(ScanStep) /\ WF_vars(ScanFinish)

-----------------------------------------------------------------------------
(* Properties.  They are stated over the call the caller has just made     *)
(* (last) and over the provider and calculator as the call left them.      *)

LastIs(op) == last.op = op
LastReturned(op) == last.op = op /\ last.result.ok
LastThrew(op) == last.op = op /\ ~last.result.ok

\* the day a valid date argument denotes
DayOf(arg) == normalizeDate(arg).value
IsValidArg(arg) == normalizeDate(arg).ok

\* the day a valid date argument stands for: the day a string is parsed to,
\* the day a Date holds
GivenDay(arg) ==
    IF arg.kind = "string" THEN NewDateFromString(arg.parts).time ELSE arg.time

\* the fromDate a calculator call works from: the argument, or today
FromOf(fromDate, now) == IF fromDate = NoDate THEN DateArg(now) ELSE fromDate

\* the map the provider computes for the year from the holidays it holds
\* now; a year for which computeHolidays throws has no map and so no entry
YearMap(year) ==
    LET computed == computeHolidays(this, year)
    IN  IF computed.ok THEN computed.value ELSE <<>>

\* the dates of that map
HolidayDates(year) == DOMAIN YearMap(year)

\* a working day, read off the calendar: Monday to Friday and no entry in the
\* map of the day's own year
WorkingDay(d) ==
    /\ getDay(d) \in 1..5
    /\ CivilFromDays(d) \notin HolidayDates(CivilFromDays(d)[1])

WorkingDaysWithin(a, b) == Cardinality({ d \in a..b : WorkingDay(d) })

RuleMatches(rule, switchingCase) ==
    /\ rule.commodity = switchingCase.commodity
    /\ rule.useCase = switchingCase.useCase
    /\ rule.requiresTermination = switchingCase.requiresTermination

MatchingRules(ruleList, switchingCase) ==
    { i \in 1..Len(ruleList) : RuleMatches(ruleList[i], switchingCase) }

\* the rule the calculator resolves for a case: the first one that matches
ResolvedRule(switchingCase) ==
    LET idx == MatchingRules(rules, switchingCase)
    IN  IF idx = {} THEN NoRule
        ELSE rules[CHOOSE i \in idx : \A j \in idx : i <= j]

-----------------------------------------------------------------------------
\* C1: addWorkingDays(start, n) on a valid start returns, for n >= 1, the day
\* right after the n-th working day strictly after start: the day before the
\* result is a working day and is the n-th one after start, each day judged by
\* the holiday map of its own year; for n = 0 it returns start + 1.
C1_AddWorkingDays ==
    LastReturned("addWorkingDays") =>
        LET start  == DayOf(last.args[1])
            n      == last.args[2]
            result == last.result.value
        IN  IF n = 0
            THEN result = start + 1
            ELSE /\ result - 1 > start
                 /\ WorkingDay(result - 1)
                 /\ WorkingDaysWithin(start + 1, result - 1) = n

\* C2: when the resolved rule does not allow retrospective switching,
\* calculateEarliestStartDate on a valid fromDate returns
\* addWorkingDays(fromDate, rule.requiredWorkingDays) as earliestStartDate,
\* workingDaysApplied = rule.requiredWorkingDays, isRetrospective = false and
\* the resolved rule as ruleApplied.
C2_ForwardRule ==
    LastIs("calculateEarliestStartDate") =>
        LET from == FromOf(last.args[2], last.args[3])
            rule == ResolvedRule(last.args[1])
        IN  (rule # NoRule /\ ~rule.allowsRetrospective /\ IsValidArg(from)) =>
                /\ last.result.ok
                /\ last.result.value.earliestStartDate =
                       addWorkingDays(this, from, rule.requiredWorkingDays).value
                /\ last.result.value.workingDaysApplied = rule.requiredWorkingDays
                /\ last.result.value.isRetrospective = FALSE
                /\ last.result.value.ruleApplied = rule

\* C3: when the resolved rule allows retrospective switching,
\* calculateEarliestStartDate on a valid fromDate returns fromDate minus
\* rule.maxRetrospectiveDays calendar days, workingDaysApplied = 0 and
\* isRetrospective = true, and the result is the same whatever holidays the
\* calendar holds.
C3_RetrospectiveRule ==
    LastIs("calculateEarliestStartDate") =>
        LET from == FromOf(last.args[2], last.args[3])
            rule == ResolvedRule(last.args[1])
        IN  (rule # NoRule /\ rule.allowsRetrospective /\ IsValidArg(from)) =>
                /\ last.result.ok
                /\ "maxRetrospectiveDays" \in DOMAIN rule =>
                       last.result.value.earliestStartDate =
                           GivenDay(from) - rule.maxRetrospectiveDays
                /\ last.result.value.workingDaysApplied = 0
                /\ last.result.value.isRetrospective = TRUE
                /\ \A holidays \in CustomHolidayLists, special \in BOOLEAN :
                       calculateEarliestStartDate(
                           rules, newCalendarProvider(holidays, special),
                           last.args[1], last.args[2], last.args[3]).value
                       = last.result.value

\* C4: for valid dates and a case with a rule, validateStartDate returns
\* isValid = true exactly when the proposed date is on or after the earliest
\* start date calculateEarliestStartDate yields for the same case and
\* fromDate; an invalid result carries that earliest date as
\* earliestValidDate and a valid result carries no earliestValidDate.
C4_ValidateStartDate ==
    LastIs("validateStartDate") =>
        LET proposed == last.args[2]
            from     == FromOf(last.args[3], last.args[4])
            calc     == calculateEarliestStartDate(rules, this, last.args[1],
                                                   last.args[3], last.args[4])
        IN  (IsValidArg(proposed) /\ IsValidArg(from) /\ calc.ok) =>
                /\ last.result.ok
                /\ last.result.value.isValid
                       <=> (DayOf(proposed) >= calc.value.earliestStartDate)
                /\ last.result.value.isValid =>
                       "earliestValidDate" \notin DOMAIN last.result.value
                /\ ~last.result.value.isValid =>
                       /\ "earliestValidDate" \in DOMAIN last.result.value
                       /\ last.result.value.earliestValidDate
                              = calc.value.earliestStartDate

\* C5 as the specification states it: when no rule matches the case, both
\* calculateEarliestStartDate and validateStartDate fail with the
\* rule-not-found error.
C5_AsStated ==
    (LastIs("calculateEarliestStartDate") \/ LastIs("validateStartDate")) =>
        (ResolvedRule(last.args[1]) = NoRule =>
            /\ ~last.result.ok
            /\ last.result.error = NoRuleFoundError(last.args[1]))

\* C5: when no rule matches the case, neither operation returns a result.
\* calculateEarliestStartDate fails with the rule-not-found error naming the
\* case; validateStartDate fails with that error when its proposedDate and
\* fromDate are both valid, and with the invalid-date error otherwise.
C5_RuleNotFound ==
    /\ LastIs("calculateEarliestStartDate") =>
          (ResolvedRule(last.args[1]) = NoRule =>
              /\ ~last.result.ok
              /\ last.result.error = NoRuleFoundError(last.args[1]))
    /\ LastIs("validateStartDate") =>
          (ResolvedRule(last.args[1]) = NoRule =>
              /\ ~last.result.ok
              /\ last.result.error =
                    IF /\ IsValidArg(last.args[2])
                       /\ IsValidArg(FromOf(last.args[3], last.args[4]))
                    THEN NoRuleFoundError(last.args[1])
                    ELSE InvalidDateError)

\* a validateStartDate call with valid dates for a case that a calculator
\* with custom rules does not cover, failed with rule-not-found
C5_Witness ==
    /\ LastThrew("validateStartDate")
    /\ "customRules" \in DOMAIN options
    /\ ResolvedRule(last.args[1]) = NoRule
    /\ IsValidArg(last.args[2])
    /\ IsValidArg(FromOf(last.args[3], last.args[4]))
    /\ last.result.error = NoRuleFoundError(last.args[1])

\* a string that denotes a day of the calendar: year, month 1..12 and a day
\* that the month has
DenotesCalendarDate(parts) ==
    /\ Len(parts) = 3
    /\ parts[2] \in 1..12
    /\ parts[3] >= 1
    /\ CivilFromDays(DayNumber(parts[1], parts[2], parts[3])) = parts

\* the date arguments of the call in last
DateArgsOfLast ==
    IF LastIs("calculateEarliestStartDate") THEN { last.args[2] }
    ELSE IF LastIs("validateStartDate") THEN { last.args[2], last.args[3] }
    ELSE IF \/ LastIs("isHoliday") \/ LastIs("isWorkingDay")
            \/ LastIs("getDayInfo") \/ LastIs("addWorkingDays")
         THEN { last.args[1] }
    ELSE {}

\* C6: an operation that was given a date string that is unparseable or does
\* not denote an existing calendar date fails with the invalid-date error.
C6_InvalidDateRejected ==
    (\E arg \in DateArgsOfLast :
        arg.kind = "string" /\ ~DenotesCalendarDate(arg.parts))
    => (~last.result.ok /\ last.result.error = InvalidDateError)

\* C7: isWorkingDay(d) is false exactly when d is a Saturday or Sunday or
\* isHoliday(d) returns a holiday; on a weekday without an entry in its
\* year's holiday map it is true.
C7_IsWorkingDay ==
    LastReturned("isWorkingDay") =>
        LET d == DayOf(last.args[1])
        IN  /\ last.result.value = FALSE
                <=> \/ getDay(d) \in {0, 6}
                    \/ isHoliday(this, last.args[1]).value # NoHoliday
            /\ (getDay(d) \in 1..5
                /\ CivilFromDays(d) \notin HolidayDates(CivilFromDays(d)[1]))
               => last.result.value = TRUE

\* C8: the region list of a holiday plays no part: for every date with an
\* entry in its year's holiday map, whatever regions the entry names,
\* isHoliday returns the entry, isWorkingDay returns false and getDayInfo
\* reports a non-working day.
C8_RegionsIgnored ==
    (LastReturned("isHoliday") \/ LastReturned("isWorkingDay")
        \/ LastReturned("getDayInfo")) =>
        LET key == CivilFromDays(DayOf(last.args[1]))
            map == YearMap(key[1])
        IN  key \in DOMAIN map =>
                /\ LastIs("isHoliday") => last.result.value = map[key]
                /\ LastIs("isWorkingDay") => last.result.value = FALSE
                /\ LastIs("getDayInfo") =>
                      /\ last.result.value.isWorkingDay = FALSE
                      /\ last.result.value.holiday = map[key]

\* isWorkingDay found a weekday non-working whose only entry is a holiday of
\* some federal states
C8_Witness ==
    /\ LastReturned("isWorkingDay")
    /\ last.result.value = FALSE
    /\ getDay(DayOf(last.args[1])) \in 1..5
    /\ LET key == CivilFromDays(DayOf(last.args[1]))
       IN  /\ key \in HolidayDates(key[1])
           /\ YearMap(key[1])[key].bundeslaender # <<>>

\* C9: the provider's custom holidays are those of the list the caller
\* supplied last, and nothing else; the call of updateCustomHolidays leaves
\* the cache empty; and in every reachable state the map cached for a year is
\* the map computed afresh for that year from the current custom holidays.
C9_CacheFresh ==
    /\ customHolidays = mapCustomHolidays(appliedHolidays)
    /\ LastIs("updateCustomHolidays") => DOMAIN holidayCache = {}
    /\ \A year \in DOMAIN holidayCache :
          holidayCache[year] = YearMap(year)

\* a query on a year that was cached before the last updateCustomHolidays and
\* has been computed again since
C9_Witness ==
    /\ LastReturned("isWorkingDay")
    /\ getFullYear(DayOf(last.args[1])) \in droppedYears
    /\ getFullYear(DayOf(last.args[1])) \in DOMAIN holidayCache

\* C10: a calculator constructed with customRules holds exactly those rules
\* and one constructed without holds the default table; a result's
\* ruleApplied is one of the rules held; and on a calculator given
\* customRules a case that no custom rule matches fails with rule-not-found,
\* also when the default table has a rule for it.
C10_CustomRulesReplace ==
    /\ rules = IF "customRules" \in DOMAIN options
               THEN options.customRules ELSE DEFAULT_DEADLINE_RULES
    /\ LastReturned("calculateEarliestStartDate") =>
          \E i \in 1..Len(rules) : last.result.value.ruleApplied = rules[i]
    /\ (LastIs("calculateEarliestStartDate") /\ "customRules" \in DOMAIN options
        /\ MatchingRules(options.customRules, last.args[1]) = {}) =>
          /\ ~last.result.ok
          /\ last.result.error = NoRuleFoundError(last.args[1])

\* a calculator given the empty rule list refused a case the default table
\* covers
C10_Witness ==
    /\ LastThrew("calculateEarliestStartDate")
    /\ "customRules" \in DOMAIN options
    /\ options.customRules = <<>>
    /\ MatchingRules(DEFAULT_DEADLINE_RULES, last.args[1]) # {}
    /\ last.result.error = NoRuleFoundError(last.args[1])

\* C11: the rule lookup (getRule, findApplicableRule) never raises; it returns
\* the first rule in table order whose commodity, useCase and
\* requiresTermination equal those of the case, also when several rules share
\* the triple, and no rule when none matches; the rule returned is fixed by
\* the table and the case alone.
C11_FirstMatch ==
    LastIs("getRule") =>
        LET idx == MatchingRules(rules, last.args[1])
        IN  /\ last.result.ok
            /\ idx = {} => last.result.value = NoRule
            /\ idx # {} =>
                  \E i \in idx :
                      /\ \A j \in idx : i <= j
                      /\ last.result.value = rules[i]
            /\ last.result.value =
                  findApplicableRule(last.args[1].commodity, last.args[1].useCase,
                                     last.args[1].requiresTermination, rules)

\* a lookup on a table where two rules share the triple of the case
C11_Witness ==
    /\ LastReturned("getRule")
    /\ Cardinality(MatchingRules(rules, last.args[1])) >= 2
    /\ last.result.value.id = "custom_power"

\* C12: the rules of a calculator never change after construction: no
\* operation and no change the caller makes to an array returned by getRules
\* alters them, and getRules returns the rules given at construction, in
\* their order.
C12_RulesImmutable ==
    /\ []((LastIs("getRules") /\ last.edits = 0) =>
            last.result.value.items = newDeadlineCalculatorRules(options))
    /\ [][rules' = rules]_vars

\* the caller has changed the array getRules returned, which now differs from
\* the calculator's rules
C12_Witness ==
    /\ LastReturned("getRules")
    /\ last.edits >= 1
    /\ last.result.value.items # rules
    /\ rules = newDeadlineCalculatorRules(options)

\* a custom holiday is registered on the date
HasCustomHoliday(key) ==
    \E i \in 1..Len(customHolidays) : customHolidays[i].date = key

\* C13: in every year and under every provider configuration December 24 and
\* December 31 are non-working days: isHoliday returns a holiday, isWorkingDay
\* returns false and getDayInfo reports a non-working day; with no custom
\* holiday on the date getDayInfo reports it with type OPERATIONAL_HOLIDAY and
\* an empty region list.
C13_OperationalHolidays ==
    (LastReturned("isHoliday") \/ LastReturned("isWorkingDay")
        \/ LastReturned("getDayInfo")) =>
        LET key == CivilFromDays(DayOf(last.args[1]))
        IN  (key[2] = 12 /\ key[3] \in {24, 31}) =>
                /\ LastIs("isHoliday") => last.result.value # NoHoliday
                /\ LastIs("isWorkingDay") => last.result.value = FALSE
                /\ LastIs("getDayInfo") =>
                      /\ last.result.value.isWorkingDay = FALSE
                      /\ ~HasCustomHoliday(key) =>
                            /\ last.result.value.holiday.type = OPERATIONAL_HOLIDAY
                            /\ last.result.value.holiday.bundeslaender = <<>>

DatesOf(holidays) == { holidays[i].date : i \in 1..Len(holidays) }

\* the moving holidays of the year; none when getMovingHolidays throws
MovingHolidays(year) ==
    LET moving == getMovingHolidays(year)
    IN  IF moving.ok THEN moving.value ELSE <<>>

\* the date is in the library's list of special holidays and is no fixed, no
\* moving and no custom holiday
OnlySpecial(key) ==
    /\ key \in DatesOf(getSpecialHolidays(key[1]))
    /\ key \notin DatesOf(getFixedHolidays(key[1]))
    /\ key \notin DatesOf(MovingHolidays(key[1]))
    /\ ~HasCustomHoliday(key)

\* the entry of the library's special-holiday list for the date
SpecialEntry(key) ==
    LET special == getSpecialHolidays(key[1])
    IN  special[CHOOSE i \in 1..Len(special) : special[i].date = key]

\* C14 as the specification states it: with useSpecialHolidays = false a date
\* that is only in the library's special-holiday list is no holiday, and a
\* working day when it is a weekday; with useSpecialHolidays = true it is
\* non-working.
C14_AsStated ==
    (LastReturned("isHoliday") \/ LastReturned("isWorkingDay")) =>
        LET d   == DayOf(last.args[1])
            key == CivilFromDays(d)
        IN  OnlySpecial(key) =>
                IF useSpecialHolidays
                THEN /\ LastIs("isHoliday") => last.result.value # NoHoliday
                     /\ LastIs("isWorkingDay") => last.result.value = FALSE
                ELSE /\ LastIs("isHoliday") => last.result.value = NoHoliday
                     /\ LastIs("isWorkingDay") =>
                           last.result.value = (getDay(d) \in 1..5)

\* C14: with useSpecialHolidays = false the entries of the library's
\* special-holiday list that have type SPECIAL_HOLIDAY are left out: a date
\* that only such an entry names is no holiday and is a working day when it
\* is a weekday (2025-06-06).  Entries of the list with another type (the
\* one-time public holiday 2025-05-08) stay holidays.  With
\* useSpecialHolidays = true every date of the list is non-working.
C14_SpecialHolidaysSwitch ==
    (LastReturned("isHoliday") \/ LastReturned("isWorkingDay")) =>
        LET d   == DayOf(last.args[1])
            key == CivilFromDays(d)
        IN  OnlySpecial(key) =>
                IF useSpecialHolidays \/ SpecialEntry(key).type # SPECIAL_HOLIDAY
                THEN /\ LastIs("isHoliday") => last.result.value = SpecialEntry(key)
                     /\ LastIs("isWorkingDay") => last.result.value = FALSE
                ELSE /\ LastIs("isHoliday") => last.result.value = NoHoliday
                     /\ LastIs("isWorkingDay") =>
                           last.result.value = (getDay(d) \in 1..5)

\* a provider with useSpecialHolidays = false found 2025-06-06 a working day
C14_Witness ==
    /\ LastReturned("isWorkingDay")
    /\ ~useSpecialHolidays
    /\ CivilFromDays(DayOf(last.args[1])) = <<2025, 6, 6>>
    /\ OnlySpecial(<<2025, 6, 6>>)
    /\ last.result.value = TRUE

\* C15 as the specification states it: addWorkingDays lands on the n-th
\* working day after the start, so adding 5 working days to Friday 2024-07-12
\* returns the next Friday, 2024-07-19.
C15_AsStated ==
    (LastReturned("addWorkingDays") /\ last.args[2] >= 1) =>
        /\ WorkingDay(last.result.value)
        /\ WorkingDaysWithin(DayOf(last.args[1]) + 1, last.result.value)
               = last.args[2]
        /\ last.args = <<Iso(2024, 7, 12), 5>> =>
               last.result.value = DayNumber(2024, 7, 19)

\* C16: for a valid date d, getDayInfo(d).isWorkingDay equals isWorkingDay(d)
\* and is true exactly when getDayInfo(d).holiday is absent; a date with an
\* entry in its year's holiday map gets that entry as holiday, on a Saturday
\* or Sunday too; a Saturday or Sunday without an entry gets a holiday of type
\* WEEKEND named Samstag or Sonntag; a Monday to Friday without an entry gets
\* no holiday.
C16_GetDayInfo ==
    LastReturned("getDayInfo") =>
        LET d    == DayOf(last.args[1])
            key  == CivilFromDays(d)
            info == last.result.value
            map  == YearMap(key[1])
        IN  /\ info.date = key
            /\ info.isWorkingDay = isWorkingDay(this, last.args[1]).value
            /\ info.isWorkingDay <=> "holiday" \notin DOMAIN info
            /\ key \in DOMAIN map => info.holiday = map[key]
            /\ (key \notin DOMAIN map /\ getDay(d) \in 1..5) =>
                  "holiday" \notin DOMAIN info
            /\ (key \notin DOMAIN map /\ getDay(d) \in {0, 6}) =>
                  info.holiday =
                      [date |-> key,
                       name |-> IF getDay(d) = 0 THEN "Sonntag" ELSE "Samstag",
                       type |-> WEEKEND]

\* the days of start..end that are working days (working = TRUE) or are not
\* (working = FALSE)
DaysInRange(start, end, working) ==
    { d \in start..end : WorkingDay(d) = working }

\* days is the list, in ascending date order, of the DayInfo of the days in
\* the set
IsDayInfoListOf(days, set) ==
    /\ Len(days) = Cardinality(set)
    /\ { days[i].date : i \in 1..Len(days) } = { CivilFromDays(d) : d \in set }
    /\ \A i \in 1..Len(days) : \A j \in 1..Len(days) :
          i < j => DayNumber(days[i].date[1], days[i].date[2], days[i].date[3])
                   < DayNumber(days[j].date[1], days[j].date[2], days[j].date[3])
    /\ \A i \in 1..Len(days) :
          days[i] = getDayInfo(this, StringArg(days[i].date)).value

\* C17: for valid start and end, getWorkingDaysInRange returns in ascending
\* order the DayInfo of exactly the working days d with start <= d <= end,
\* getNonWorkingDaysInRange those of exactly the other days of the range, and
\* countWorkingDays the number of the former; with start after end they give
\* the empty list and 0; countWorkingDays('2025-12-22', '2026-01-05') is 6 on
\* a provider without custom holidays.
C17_RangeOperations ==
    /\ LastReturned("getWorkingDaysInRange") =>
          IsDayInfoListOf(last.result.value,
                          DaysInRange(DayOf(last.args[1]), DayOf(last.args[2]), TRUE))
    /\ LastReturned("getNonWorkingDaysInRange") =>
          IsDayInfoListOf(last.result.value,
                          DaysInRange(DayOf(last.args[1]), DayOf(last.args[2]), FALSE))
    /\ LastReturned("countWorkingDays") =>
          /\ last.result.value =
                Cardinality(DaysInRange(DayOf(last.args[1]), DayOf(last.args[2]),
                                        TRUE))
          /\ last.result.value =
                Len(getWorkingDaysInRange(this, last.args[1], last.args[2]).value)
          /\ (last.args = <<Iso(2025, 12, 22), Iso(2026, 1, 5)>>
              /\ customHolidays = <<>>) => last.result.value = 6
    /\ (LastIs("getWorkingDaysInRange") \/ LastIs("getNonWorkingDaysInRange")
        \/ LastIs("countWorkingDays"))
       /\ IsValidArg(last.args[1]) /\ IsValidArg(last.args[2]) =>
              /\ last.result.ok
              /\ DayOf(last.args[1]) > DayOf(last.args[2]) =>
                    last.result.value = IF LastIs("countWorkingDays") THEN 0 ELSE <<>>

\* C18: for a valid date d, getNextWorkingDay(d) is the earliest working day
\* after d and getPreviousWorkingDay(d) the latest working day before d: the
\* result is a working day, it is not d, and no working day lies strictly
\* between d and the result.
C18_NextAndPreviousWorkingDay ==
    /\ LastIs("getNextWorkingDay") /\ IsValidArg(last.args[1]) =>
          /\ last.result.ok
          /\ last.result.value > DayOf(last.args[1])
          /\ WorkingDay(last.result.value)
          /\ \A d \in (DayOf(last.args[1]) + 1)..(last.result.value - 1) :
                ~WorkingDay(d)
    /\ LastIs("getPreviousWorkingDay") /\ IsValidArg(last.args[1]) =>
          /\ last.result.ok
          /\ last.result.value < DayOf(last.args[1])
          /\ WorkingDay(last.result.value)
          /\ \A d \in (last.result.value + 1)..(DayOf(last.args[1]) - 1) :
                ~WorkingDay(d)

\* C20: between two invalidations of the cache the holiday map of a year is
\* computed at most once: computeHolidays has been called once for each year
\* in the cache and for no other year since the provider was constructed or
\* updateCustomHolidays was last called, and a query on a weekday has its
\* year computed in that period, also a year that was cached before the
\* update.
C20_ComputedOncePerYear ==
    /\ \A year \in DOMAIN computeHolidaysCalls : computeHolidaysCalls[year] <= 1
    /\ DOMAIN computeHolidaysCalls = DOMAIN holidayCache
    /\ LastIs("updateCustomHolidays") => DOMAIN computeHolidaysCalls = {}
    /\ (LastReturned("isWorkingDay") /\ getDay(DayOf(last.args[1])) \in 1..5) =>
          /\ getFullYear(DayOf(last.args[1])) \in DOMAIN computeHolidaysCalls
          /\ computeHolidaysCalls[getFullYear(DayOf(last.args[1]))] = 1

\* a call whose loop is running, and a call that has ended with a value, a
\* date where the operation returns a Date
InLoop == last.op # "none" /\ last.pc = "loop"
LoopEnded ==
    /\ last.op # "none"
    /\ last.pc = "done"
    /\ last.result.ok
    /\ last.op \in {"addWorkingDays", "getNextWorkingDay", "getPreviousWorkingDay"}
          => last.result.value # NaN

\* C19: given valid dates, addWorkingDays(start, n) for n >= 0,
\* getNextWorkingDay, getPreviousWorkingDay and the range scans terminate
\* and return a value, the first three a date, under every provider
\* configuration: a call whose loop is running reaches its end and returns.
C19_ScansTerminate == InLoop ~> LoopEnded

\* the holiday sources of a year for the provider, in the order in which
\* computeHolidays inserts them: fixed, moving, special, custom
HolidaySources(year) ==
    LET notSpecial(holiday) == holiday.type # SPECIAL_HOLIDAY
    IN  << getFixedHolidays(year),
           MovingHolidays(year),
           IF useSpecialHolidays THEN getSpecialHolidays(year)
           ELSE SelectSeq(getSpecialHolidays(year), notSpecial),
           filterHolidaysForYear(customHolidays, year) >>

\* the entry for the date from the source inserted last among those that
\* have one, the last one of that source; NoHoliday when no source has one
LastInserted(key) ==
    LET sources == HolidaySources(key[1])
        has(k)  == \E i \in 1..Len(sources[k]) : sources[k][i].date = key
    IN  IF \A k \in 1..4 : ~has(k) THEN NoHoliday
        ELSE LET k == CHOOSE k \in 1..4 : has(k) /\ \A l \in (k + 1)..4 : ~has(l)
                 i == CHOOSE i \in 1..Len(sources[k]) :
                        /\ sources[k][i].date = key
                        /\ \A j \in (i + 1)..Len(sources[k]) :
                              sources[k][j].date # key
             IN  sources[k][i]

\* C21: when several holiday sources have an entry for a date, isHoliday and
\* getDayInfo report the single entry of the source inserted last in the
\* order fixed, moving, special, custom, and the date is non-working.
C21_LaterSourceWins ==
    (LastReturned("isHoliday") \/ LastReturned("getDayInfo")) =>
        LET key == CivilFromDays(DayOf(last.args[1]))
        IN  /\ LastIs("isHoliday") => last.result.value = LastInserted(key)
            /\ (LastIs("getDayInfo") /\ LastInserted(key) # NoHoliday) =>
                  /\ last.result.value.holiday = LastInserted(key)
                  /\ last.result.value.isWorkingDay = FALSE

\* getDayInfo on December 24, 2025, a fixed holiday on which a custom holiday
\* is registered, reported the custom holiday's name and type
C21_Witness ==
    /\ LastReturned("getDayInfo")
    /\ CivilFromDays(DayOf(last.args[1])) = <<2025, 12, 24>>
    /\ \E i \in 1..Len(getFixedHolidays(2025)) :
          getFixedHolidays(2025)[i].date = <<2025, 12, 24>>
    /\ last.result.value.holiday.name = "Werksferien"
    /\ last.result.value.holiday.type = SPECIAL_HOLIDAY
    /\ last.result.value.isWorkingDay = FALSE

\* the month and day of the entries of a holiday list
MonthDays(holidays) ==
    { <<holidays[i].date[2], holidays[i].date[3]>> : i \in 1..Len(holidays) }

\* the entries of a holiday list that have the type
OfType(holidays, type) ==
    { i \in 1..Len(holidays) : holidays[i].type = type }

\* the entries are in the year (their date starts with the digits of the
\* year), have a month and day of the calendar and a region list, and exactly
\* two of them are operational holidays: December 24 and December 31
FixedHolidaysWellFormed(holidays, year) ==
    /\ \A i \in 1..Len(holidays) :
          /\ parsedYearIs(holidays[i].date, year)
          /\ holidays[i].date[2] \in 1..12
          /\ holidays[i].date[3] \in 1..31
          /\ "bundeslaender" \in DOMAIN holidays[i]
          /\ holidays[i].type \in {PUBLIC_HOLIDAY, OPERATIONAL_HOLIDAY}
    /\ Cardinality(MonthDays(holidays)) = Len(holidays)
    /\ Cardinality(OfType(holidays, OPERATIONAL_HOLIDAY)) = 2
    /\ { <<holidays[i].date[2], holidays[i].date[3]>> :
             i \in OfType(holidays, OPERATIONAL_HOLIDAY) }
          = { <<12, 24>>, <<12, 31>> }

\* C22 as the specification states it: getFixedHolidays(year) returns exactly
\* 12 holidays.
C22_AsStated ==
    LastReturned("getFixedHolidays") =>
        /\ Len(last.result.value) = 12
        /\ FixedHolidaysWellFormed(last.result.value, last.args[1])

\* C22: for every year getFixedHolidays(year) returns exactly 13 holidays on
\* 13 hard-coded month/day pairs of that year, each with its region list,
\* among them exactly two operational holidays, December 24 and December 31.
C22_FixedHolidays ==
    LastReturned("getFixedHolidays") =>
        /\ Len(last.result.value) = 13
        /\ MonthDays(last.result.value) =
              { <<1, 1>>, <<1, 6>>, <<3, 8>>, <<5, 1>>, <<8, 15>>, <<9, 20>>,
                <<10, 3>>, <<10, 31>>, <<11, 1>>, <<12, 24>>, <<12, 25>>,
                <<12, 26>>, <<12, 31>> }
        /\ FixedHolidaysWellFormed(last.result.value, last.args[1])

\* getFixedHolidays(2033) returned a list with the regional entry of
\* September 20 and the nationwide entry of October 3
C22_Witness ==
    /\ LastReturned("getFixedHolidays")
    /\ last.args[1] = 2033
    /\ \E i, j \in 1..Len(last.result.value) :
          /\ last.result.value[i].date = <<2033, 9, 20>>
          /\ last.result.value[i].bundeslaender = <<"TH">>
          /\ last.result.value[j].date = <<2033, 10, 3>>
          /\ last.result.value[j].bundeslaender = <<>>

\* the dates of the entries of a holiday list that have the name
DatesNamed(holidays, name) ==
    { holidays[i].date : i \in { j \in 1..Len(holidays) : holidays[j].name = name } }

\* C23: for every year the Day of Repentance and Prayer that
\* getMovingHolidays produces is the Wednesday strictly before November 23 of
\* the year, a Wednesday between November 16 and November 22: November 16
\* when November 23 is a Wednesday; 2025-11-19, 2026-11-18 and 2033-11-16.
C23_DayOfRepentance ==
    LastReturned("getMovingHolidays") =>
        LET year  == last.args[1]
            nov23 == DayNumber(year, 11, 23)
            dates == DatesNamed(last.result.value, "Buss- und Bettag")
        IN  /\ Cardinality(dates) = 1
            /\ \A date \in dates :
                  LET d == DayNumber(date[1], date[2], date[3])
                  IN  /\ getDay(d) = 3
                      /\ d < nov23
                      /\ \A e \in (d + 1)..(nov23 - 1) : getDay(e) # 3
                      /\ date[1] = year /\ date[2] = 11 /\ date[3] \in 16..22
                      /\ getDay(nov23) = 3 => date = <<year, 11, 16>>
                      /\ year = 2025 => date = <<2025, 11, 19>>
                      /\ year = 2026 => date = <<2026, 11, 18>>
                      /\ year = 2033 => date = <<2033, 11, 16>>

\* the names of the Easter-relative holidays with their distance in days from
\* Easter Sunday and their day of the week (0 = Sunday)
EasterRelative ==
    { <<"Karfreitag", -2, 5>>, <<"Ostersonntag", 0, 0>>, <<"Ostermontag", 1, 1>>,
      <<"Christi Himmelfahrt", 39, 4>>, <<"Pfingstsonntag", 49, 0>>,
      <<"Pfingstmontag", 50, 1>>, <<"Fronleichnam", 60, 4>> }

\* C24: for every year getMovingHolidays puts Good Friday 2 days before the
\* year's Gregorian Easter Sunday, Easter Monday 1, Ascension 39, Whit Sunday
\* 49, Whit Monday 50 and Corpus Christi 60 days after it, so that each falls
\* on its day of the week; Good Friday and Easter Monday are April 18 and 21
\* in 2025 and April 3 and 6 in 2026.
C24_EasterRelative ==
    LastReturned("getMovingHolidays") =>
        LET year   == last.args[1]
            e      == easter(year)
            sunday == DayNumber(e.year, e.month, e.day)
            on(name) == DatesNamed(last.result.value, name)
        IN  /\ e.year = year
            /\ getDay(sunday) = 0
            /\ \A h \in EasterRelative :
                  /\ on(h[1]) = { toISODateString(sunday + h[2]).value }
                  /\ \A date \in on(h[1]) :
                        getDay(DayNumber(date[1], date[2], date[3])) = h[3]
            /\ year = 2025 => /\ on("Karfreitag") = { <<2025, 4, 18>> }
                              /\ on("Ostermontag") = { <<2025, 4, 21>> }
            /\ year = 2026 => /\ on("Karfreitag") = { <<2026, 4, 3>> }
                              /\ on("Ostermontag") = { <<2026, 4, 6>> }

\* the calculator was constructed without custom rules
DefaultCalculator == "customRules" \notin DOMAIN options

\* the (commodity, useCase, requiresTermination) triples of a rule list
TriplesOf(ruleList) ==
    { <<ruleList[i].commodity, ruleList[i].useCase, ruleList[i].requiresTermination>> :
        i \in 1..Len(ruleList) }

\* the case is a relocation that requires a termination
RelocationWithTermination(switchingCase) ==
    switchingCase.useCase = RELOCATION /\ switchingCase.requiresTermination

\* in the rules of a default calculator no triple and no id occurs twice and
\* the triples are the six that are not a relocation with termination
DefaultTableShape ==
    DefaultCalculator =>
        /\ Cardinality(TriplesOf(rules)) = Len(rules)
        /\ Cardinality({ rules[i].id : i \in 1..Len(rules) }) = Len(rules)
        /\ TriplesOf(rules) =
              { <<c, u, t>> : c \in {POWER, GAS}, u \in {RELOCATION, SWITCH},
                              t \in BOOLEAN }
              \ { <<c, RELOCATION, TRUE>> : c \in {POWER, GAS} }

\* C25 as the specification states it: for a relocation with termination
\* validateStartDate on a default calculator fails with rule-not-found for
\* every fromDate.
C25_AsStated ==
    /\ DefaultTableShape
    /\ (DefaultCalculator /\ LastIs("validateStartDate")
          /\ RelocationWithTermination(last.args[1])) =>
          /\ ~last.result.ok
          /\ last.result.error = NoRuleFoundError(last.args[1])

\* C25: the default rule table has no triple and no id twice and covers 6 of
\* the 8 triples; for a relocation with termination, power or gas, getRule
\* on a default calculator returns no rule, calculateEarliestStartDate fails
\* with rule-not-found for every fromDate, and validateStartDate fails with
\* rule-not-found when its dates are valid and with invalid-date otherwise.
C25_DefaultTableGaps ==
    /\ DefaultTableShape
    /\ (DefaultCalculator /\ LastIs("getRule")
          /\ RelocationWithTermination(last.args[1])) =>
          last.result.value = NoRule
    /\ (DefaultCalculator /\ LastIs("calculateEarliestStartDate")
          /\ RelocationWithTermination(last.args[1])) =>
          /\ ~last.result.ok
          /\ last.result.error = NoRuleFoundError(last.args[1])
    /\ (DefaultCalculator /\ LastIs("validateStartDate")
          /\ RelocationWithTermination(last.args[1])) =>
          /\ ~last.result.ok
          /\ last.result.error =
                IF /\ IsValidArg(last.args[2])
                   /\ IsValidArg(FromOf(last.args[3], last.args[4]))
                THEN NoRuleFoundError(last.args[1])
                ELSE InvalidDateError

\* calculateEarliestStartDate on a default calculator, for a gas relocation
\* with termination and a fromDate that is no date, failed with
\* rule-not-found
C25_Witness ==
    /\ DefaultCalculator
    /\ LastThrew("calculateEarliestStartDate")
    /\ last.args[1] = SwitchingCase(GAS, RELOCATION, TRUE)
    /\ ~IsValidArg(FromOf(last.args[2], last.args[3]))
    /\ last.result.error = NoRuleFoundError(last.args[1])

\* dates about which the provider is asked before and after a failed call
ProbeDates == { Iso(2025, 10, 1), DateArg(DayNumber(2026, 1, 6)) }

\* the step is a call that fails
FailedCall == last.op = "none" /\ last'.op # "none" /\ ~last'.result.ok

C27_ErrorPrecedence ==
    /\ (LastIs("calculateEarliestStartDate")
          /\ ResolvedRule(last.args[1]) = NoRule
          /\ ~IsValidArg(FromOf(last.args[2], last.args[3]))) =>
          /\ ~last.result.ok
          /\ last.result.error = NoRuleFoundError(last.args[1])
          /\ last.result.error # InvalidDateError
    /\ (LastIs("validateStartDate")
          /\ (~IsValidArg(last.args[2])
                \/ ~IsValidArg(FromOf(last.args[3], last.args[4])))) =>
          /\ ~last.result.ok
          /\ last.result.error = InvalidDateError
          /\ last.result.error # NoRuleFoundError(last.args[1])

\* validateStartDate with a case no rule matches, a valid proposedDate and a
\* fromDate that cannot be parsed has failed with invalid-date
C27_Witness ==
    /\ LastThrew("validateStartDate")
    /\ ResolvedRule(last.args[1]) = NoRule
    /\ IsValidArg(last.args[2])
    /\ ~IsValidArg(FromOf(last.args[3], last.args[4]))
    /\ last.result.error = InvalidDateError

\* C28: on one calendar addWorkingDays is monotone in both arguments: a later
\* start with the same n does not give an earlier result, a larger n with the
\* same start gives a strictly later result, and the result is at least
\* start + 1 and at least start + n + 1.
C28_Monotone ==
    LastReturned("addWorkingDays") =>
        LET s == GivenDay(last.args[1])
            n == last.args[2]
            r == last.result.value
            add(t, k) == addWorkingDays(this, DateArg(t), k).value
        IN  /\ r >= s + 1
            /\ r >= s + n + 1
            /\ \A t \in s..(s + MonotoneSpan) : r <= add(t, n)
            /\ \A k \in n..(MaxWorkingDays + 1) :
                  /\ r <= add(s, k)
                  /\ n < k => r < add(s, k)

\* a provider with the same special-holiday switch and no custom holidays
WithoutCustomHolidays == newCalendarProvider(<<>>, useSpecialHolidays)

\* C29: custom holidays only add non-working days: a date that is not a
\* working day on a provider without custom holidays and with the same
\* special-holiday switch is not a working day on the provider, whether its
\* custom holidays come from the constructor or from updateCustomHolidays,
\* and addWorkingDays on the provider is never earlier than without them.
C29_CustomOnlyAdds ==
    /\ LastReturned("isWorkingDay") =>
          (~isWorkingDay(WithoutCustomHolidays, last.args[1]).value
              => ~last.result.value)
    /\ LastReturned("addWorkingDays") =>
          last.result.value >=
              addWorkingDays(WithoutCustomHolidays, last.args[1], last.args[2]).value

\* after updateCustomHolidays, addWorkingDays returned a later day than a
\* provider without custom holidays gives
C29_Witness ==
    /\ LastReturned("addWorkingDays")
    /\ customHolidays # <<>>
    /\ droppedYears # {}
    /\ last.result.value >
          addWorkingDays(WithoutCustomHolidays, last.args[1], last.args[2]).value

\* validateStartDate on the calculator and the provider of the state accepts
\* the day as proposed date
Accepts(switchingCase, day, fromDate, now) ==
    \A proposedDate \in {DateArg(day), StringArg(toISODateString(day).value)} :
        validateStartDate(rules, this, switchingCase, proposedDate, fromDate, now)
            .value.isValid

\* C30: calculateEarliestStartDate and validateStartDate agree: the earliest
\* start date that calculateEarliestStartDate returns is valid for the same
\* case and fromDate; the earliestValidDate that comes with a rejection is
\* accepted when it is proposed; and every day after a valid proposed date is
\* valid.
C30_CalculateValidateAgree ==
    /\ LastReturned("calculateEarliestStartDate") =>
          Accepts(last.args[1], last.result.value.earliestStartDate,
                  last.args[2], last.args[3])
    /\ (LastReturned("validateStartDate") /\ ~last.result.value.isValid) =>
          Accepts(last.args[1], last.result.value.earliestValidDate,
                  last.args[3], last.args[4])
    /\ (LastReturned("validateStartDate") /\ last.result.value.isValid) =>
          \A later \in DayOf(last.args[2])..(DayOf(last.args[2]) + MonotoneSpan) :
              Accepts(last.args[1], later, last.args[3], last.args[4])

=============================================================================
